---- MODULE Spec2Model ----
(***************************************************************************)
(* A model of getbiji-sync: the resilient request executor                 *)
(* (requestWithRetry), the paginated note fetcher (fetchNotes), the detail *)
(* fetcher (fetchLinkDetail), the sync orchestrator (syncBiji) and the     *)
(* plugin's trigger (triggerSync).                                         *)
(*                                                                         *)
(* JavaScript runs one task at a time: a handler runs from the point where *)
(* an awaited promise settles to the next await.  The model keeps one      *)
(* program counter per async function.  A counter value in AwaitPoints     *)
(* means the function is suspended on a promise the environment settles;   *)
(* every other value is a synchronous continuation, during which no        *)
(* outside event (user command, timer, service change) can happen.         *)
(***************************************************************************)
EXTENDS Integers, Sequences, FiniteSets, TLC

VARIABLES
    \* ---- requestWithRetry (one call at a time) ----
    rwPc,        \* "idle" | "request" | "refresh" | "retry" | "backoff" | "returned" | "threw"
    rwCaller,    \* "harness" | "fetchNotes" | "fetchLinkDetail"
    rwParams,    \* the RequestUrlParam of the next request
    rwAttempt,   \* the loop variable `attempt`
    rwResult,    \* the response returned or the error thrown
    rwLog,       \* history of this call: every requestUrl issued, with its outcome
    rwRefreshes, \* history of this call: every refreshJwtCallback outcome
    rwWaits,     \* history of this call: every backoff delay waited
    jwt,         \* syncBiji's `jwt`, which the refresh callback updates
    \* ---- the plugin (main.ts) ----
    settings,    \* plugin.settings, in memory
    syncing,     \* BijiSyncPlugin.syncing
    ctl,         \* syncAbortController: "null" | "live" | "aborted"
    timer,       \* autoSyncIntervalId !== null
    autoSyncIntervalId, \* the handle of the plugin's interval, NoInterval for null
    intervals,   \* the handles of the intervals of `window` that are live
    authFailures,\* consecutiveAuthFailures
    notices,     \* the Notices shown since the last run started
    \* ---- syncBiji and the fetchNotes generator it drives ----
    pc,          \* where the run is (see AwaitPoints)
    run,         \* syncBiji's locals
    gen,         \* fetchNotes' locals
    \* ---- the world ----
    upstream,    \* the service's notes, newest first
    folder,      \* the target folder exists
    vault,       \* the documents of the target folder: path -> frontmatter
    indexed,     \* the paths whose frontmatter the metadata cache holds
    runs,        \* number of runs that obtained a credential; the clock Date.now() reads
    \* ---- history, for stating properties ----
    hist,        \* of the run in progress
    last,        \* what is kept of the run that ended last
    \* ---- a function of markdown.ts called directly, as its unit tests call it ----
    call,        \* the function, its arguments, and what it returned
    \* ---- the clock of the auto-sync interval ----
    ticks        \* how many times the interval has fired

rwVars == <<rwPc, rwCaller, rwParams, rwAttempt, rwResult, rwLog, rwRefreshes, rwWaits>>
timerVars == <<autoSyncIntervalId, intervals>>
pluginVars == <<settings, syncing, ctl, timer, timerVars, authFailures, notices>>
runVars == <<pc, run, gen>>
worldVars == <<upstream, folder, vault, indexed, runs>>
histVars == <<hist, last, call, ticks>>
restVars == <<pluginVars, runVars, worldVars, histVars>>
vars == <<rwVars, jwt, restVars>>

----------------------------------------------------------------------------
(* Bounds of the model *)

\* the short-lived credentials the auth endpoint can hand out: 1..MaxToken
MaxToken == 2

Tokens == 1..MaxToken

\* the service holds at most MaxNotes notes
MaxNotes == 2

\* at most MaxRuns sync runs obtain a credential, and none is started after that
MaxRuns == 2

\* the page size of the note list.  The program's PAGE_SIZE is 50; the model
\* scales it down so that a list of MaxNotes notes spans several pages.
PAGE_SIZE == 2

\* how many times the auto-sync interval fires at most
MaxTicks == 4

\* how many intervals of `window` can be live at once
MaxIntervals == 2

\* the handles window.setInterval returns
Handles == 1..MaxIntervals

\* `null` where a handle is expected
NoInterval == 0

----------------------------------------------------------------------------
(* Program constants *)

MAX_RETRIES == 3
BACKOFF_BASE == 1000

\* `err?.status` of a failure that carries no status (transport failure)
NoStatus == 0
\* the value of parseInt on a header that does not start with a number,
\* and of every arithmetic on it
NaN == -1

----------------------------------------------------------------------------
(* Values *)

HttpError(s, ra) == [type |-> "HttpError", status |-> s, retryAfter |-> ra]
NetworkError == [type |-> "NetworkError"]
PlainError(msg) == [type |-> "Error", message |-> msg]
AuthFatalError(msg, cause) == [type |-> "AuthFatalError", message |-> msg, cause |-> cause]

IsAuthFatal(e) == e.type = "AuthFatalError"

StatusOf(err) == IF "status" \in DOMAIN err THEN err.status ELSE NoStatus
RetryAfterOf(err) == IF "retryAfter" \in DOMAIN err THEN err.retryAfter ELSE ""

\* the statuses the service is modelled to fail with
FailStatuses == {400, 401, 403, 404, 429, 500, 503}
\* Retry-After header values: absent (""), numeric, and an HTTP date
RetryAfterValues == {"", "1", "10", "Wed, 21 Oct 2026 07:28:00 GMT"}

RequestFailures ==
    {HttpError(s, "") : s \in FailStatuses \ {429}}
      \cup {HttpError(429, ra) : ra \in RetryAfterValues}
      \cup {NetworkError}

RefreshFailures == {PlainError("Refresh token invalid or expired"), HttpError(500, ""), NetworkError}

Bearer(token) == <<"Bearer", token>>

apiHeaders(token) ==
    [Authorization |-> Bearer(token),
     XOAuthVersion |-> "1",
     ContentType |-> "application/json",
     UserAgent |-> "Mozilla/5.0"]

\* parseInt(retryAfter, 10) on the modelled header values
ParseInt(s) == CASE s = "1" -> 1 [] s = "10" -> 10 [] OTHER -> NaN

\* Math.max: NaN if either argument is NaN
MathMax(a, b) == IF a = NaN \/ b = NaN THEN NaN ELSE IF a >= b THEN a ELSE b

Times1000(n) == IF n = NaN THEN NaN ELSE n * 1000

RECURSIVE Pow2(_)
Pow2(n) == IF n = 0 THEN 1 ELSE 2 * Pow2(n - 1)

----------------------------------------------------------------------------
(* Notes and documents (types.ts, markdown.ts).  Strings that the program  *)
(* takes apart are sequences of one-character strings.                     *)

\* null, undefined and "" as an identifier: the program only tests them for truthiness
NoId == << >>

\* `undefined`, as opposed to a value, where the program tells them apart
Undefined == [defined |-> FALSE]
Defined(v) == [defined |-> TRUE, value |-> v]

\* `null` where a string is expected: neither `undefined` nor any string
Null == [defined |-> TRUE, null |-> TRUE]

Digits == <<"1", "2", "3", "4", "5", "6", "7", "8", "9">>

\* the identifier of the k-th note the service ever held; the first two share
\* their first six characters
IdOf(k) ==
    IF k <= 2 THEN <<"1", "0", "0", "0", "0", "0", Digits[k]>>
    ELSE <<Digits[k], "0", "0", "0", "0", "0", Digits[k]>>

\* the three characters of the placeholder title, spelled in pinyin
PlaceholderTitle == <<"wu", "biao", "ti">>

NoteTypes == {"plain_text", "link"}

PlainContent == <<"<p>", "t", "</p>">>
DetailContent == <<"o", "<br>", "&amp;">>

UnsafeChars == {"/", "\\", "?", "%", "*", ":", "|", "\"", "<", ">", "NUL"}
Whitespace == {" ", "\t", "\n"}

Min(a, b) == IF a <= b THEN a ELSE b

\* s.slice(from, to), 0-based, for 0 <= from
Slice(s, from, to) == SubSeq(s, from + 1, Min(to, Len(s)))

RECURSIVE DropWhile(_, _)
DropWhile(s, set) ==
    IF s # << >> /\ Head(s) \in set THEN DropWhile(Tail(s), set) ELSE s

RECURSIVE DropTrailing(_, _)
DropTrailing(s, set) ==
    IF s # << >> /\ s[Len(s)] \in set
    THEN DropTrailing(SubSeq(s, 1, Len(s) - 1), set)
    ELSE s

\* .replace(/\s+/g, " ")
RECURSIVE CollapseWhitespace(_)
CollapseWhitespace(s) ==
    IF s = << >> THEN << >>
    ELSE IF Head(s) \in Whitespace
         THEN <<" ">> \o CollapseWhitespace(DropWhile(s, Whitespace))
         ELSE <<Head(s)>> \o CollapseWhitespace(Tail(s))

Trim(s) == DropTrailing(DropWhile(s, Whitespace), Whitespace)

MaxNameLength == 200

sanitizeFilename(name) ==
    LET noUnsafe == SelectSeq(name, LAMBDA c : c \notin UnsafeChars)
        collapsed == CollapseWhitespace(noUnsafe)
        noDots == DropWhile(collapsed, {"."})
        result == Slice(Trim(noDots), 0, MaxNameLength)
    IN  IF result # << >> THEN result ELSE PlaceholderTitle

\* mutation: the suffix is appended unless the identifiers are equal, also when
\* no identifier is given
resolveFilename_unlessSame(title, bijiId, existingBijiId) ==
    LET base == sanitizeFilename(IF title # << >> THEN title ELSE PlaceholderTitle) IN
    IF existingBijiId # Defined(bijiId)
    THEN base \o <<"-">> \o Slice(bijiId, 0, 6)
    ELSE base

resolveFilename(title, bijiId, existingBijiId) ==
    LET base == sanitizeFilename(IF title # << >> THEN title ELSE PlaceholderTitle) IN
    IF existingBijiId # Undefined /\ existingBijiId # Defined(bijiId)
    THEN base \o <<"-">> \o Slice(bijiId, 0, 6)
    ELSE base

\* cleanHtml on a text cut into tags, entities and characters; the modelled
\* texts hold no anchors, so step 3 finds nothing to rewrite
RECURSIVE CollapseNewlines(_)
CollapseNewlines(s) ==
    IF Len(s) >= 3 /\ s[1] = "\n" /\ s[2] = "\n" /\ s[3] = "\n"
    THEN CollapseNewlines(Tail(s))
    ELSE IF s = << >> THEN << >> ELSE <<Head(s)>> \o CollapseNewlines(Tail(s))

\* the concatenation of a sequence of sequences
RECURSIVE Concat(_)
Concat(ss) == IF ss = << >> THEN << >> ELSE Head(ss) \o Concat(Tail(ss))

\* the tokens /<[^>]+>/ matches
IsTag(tok) == tok \in {"<p>", "</p>", "<br>", "<br/>", "<br />", "<b>", "</b>", "<div>", "</div>"}

Entity(tok) ==
    CASE tok = "&amp;" -> "&" [] tok = "&lt;" -> "<" [] tok = "&gt;" -> ">"
      [] tok = "&quot;" -> "\"" [] tok = "&#39;" -> "'" [] tok = "&nbsp;" -> " "
      [] OTHER -> tok

cleanHtml(html) ==
    LET breaks(tok) == IF tok \in {"<br>", "<br/>", "<br />"} THEN <<"\n">> ELSE <<tok>>
        paras(tok) == IF tok = "</p>" THEN <<"\n", "\n">>
                      ELSE IF tok = "<p>" THEN << >> ELSE <<tok>>
        tags(tok) == IF IsTag(tok) THEN << >> ELSE <<tok>>
        step1 == Concat([i \in 1..Len(html) |-> breaks(html[i])])
        step2 == Concat([i \in 1..Len(step1) |-> paras(step1[i])])
        step4 == Concat([i \in 1..Len(step2) |-> tags(step2[i])])
        step5 == CollapseNewlines(step4)
    IN  [i \in 1..Len(step5) |-> Entity(step5[i])]

\* the BijiNote fields the sync engine reads
BijiNote(id, title, noteType) ==
    [id |-> id, title |-> title, note_type |-> noteType, content |-> PlainContent]

NullNote == [isNull |-> TRUE]

\* the notes the service may come to hold as its k-th: a text note and a link
\* note, two titles that sanitize to the same name, a note without title,
\* and notes without identifier
NotesOffered(k) ==
    CASE k = 1 -> {BijiNote(IdOf(1), <<"a">>, "plain_text"), BijiNote(IdOf(1), <<"a">>, "link")}
      [] k = 2 -> {BijiNote(IdOf(2), <<"/", "a">>, "plain_text"),
                   BijiNote(IdOf(2), <<"/", "a">>, "link"),
                   BijiNote(NoId, <<"a">>, "plain_text")}
      [] OTHER -> {BijiNote(IdOf(k), << >>, "plain_text"), BijiNote(NoId, <<"a">>, "plain_text")}

\* mutation: a note without identifier is converted like any other
bijiNoteToRawNote_keepsAll(note) ==
    [isNull |-> FALSE,
     id |-> note.id,
     title |-> IF note.title # << >> THEN note.title ELSE PlaceholderTitle,
     content |-> cleanHtml(note.content),
     noteType |-> note.note_type,
     originalContent |-> Undefined]

bijiNoteToRawNote(note) ==
    IF note.id = NoId THEN NullNote
    ELSE [isNull |-> FALSE,
          id |-> note.id,
          title |-> IF note.title # << >> THEN note.title ELSE PlaceholderTitle,
          content |-> cleanHtml(note.content),
          noteType |-> note.note_type,
          originalContent |-> Undefined]

\* the document buildMarkdown renders: its frontmatter's biji_id, and the
\* quoted original content when there is one
buildMarkdown(rawNote) ==
    [biji_id |-> Defined(rawNote.id),
     title |-> rawNote.title,
     content |-> rawNote.content,
     original |-> rawNote.originalContent]

\* DEFAULT_SETTINGS.targetFolder
targetFolder == "Get-biji"

\* normalizePath(`${targetFolder}/${name}.md`)
PathOf(dir, name) == <<dir, name, ".md">>

----------------------------------------------------------------------------
(* The service, as seen through requestUrl *)

\* API_BASE/notes?limit=PAGE_SIZE&since_id=...&sort=create_desc
NotesUrl(sinceId) == [endpoint |-> "notes", limit |-> PAGE_SIZE, since_id |-> sinceId]
\* API_BASE/notes/<noteId>/links/detail
DetailUrl(noteId) == [endpoint |-> "detail", noteId |-> noteId]

\* encodeURIComponent(undefined), the since_id sent after a page whose last
\* note has no identifier; no note has this identifier
UndefinedText == <<"undefined">>

\* the notes the service lists after the note `sinceId`, newest first, at most
\* `limit` of them; an empty since_id lists from the newest note, and a
\* since_id that is no note's identifier lists nothing
ServicePage(sinceId, limit) ==
    LET at == {i \in 1..Len(upstream) : upstream[i].id = sinceId}
        from == IF sinceId = NoId THEN 1
                ELSE IF at = {} THEN Len(upstream) + 1
                ELSE (CHOOSE i \in at : TRUE) + 1
    IN  SubSeq(upstream, from, Min(from + limit - 1, Len(upstream)))

Response(json) == [type |-> "Response", status |-> 200, json |-> json]

\* what a successful requestUrl(params) resolves to
Responses(params) ==
    CASE params.url.endpoint = "notes" ->
           {Response([list |-> ServicePage(params.url.since_id, params.url.limit)])}
      [] params.url.endpoint = "detail" ->
           {Response([has_content |-> TRUE, content |-> DetailContent]),
            Response([has_content |-> FALSE])}
      [] OTHER -> {Response("ok")}

\* the failures a caller's requests are answered with: every kind for a
\* direct call, one of each branch of the retry logic inside a sync run
FailuresSeenBy(caller) ==
    IF caller = "harness" THEN RequestFailures
    ELSE {HttpError(401, ""), HttpError(404, ""), HttpError(500, "")}

RefreshFailuresSeenBy(caller) ==
    IF caller \in {"harness", "syncBiji"} THEN RefreshFailures
    ELSE {PlainError("Refresh token invalid or expired")}

\* the credentials a refresh can answer with: any for a direct call, the
\* next one inside a sync run, different from the one in use
TokensIssuedTo(caller) ==
    IF caller = "harness" THEN Tokens ELSE {(jwt % MaxToken) + 1}

----------------------------------------------------------------------------
(* requestWithRetry *)

\* the delay before the next attempt after a retryable failure
BackoffDelay(attempt, err) ==
    LET delay == BACKOFF_BASE * Pow2(attempt)
        retryAfter == RetryAfterOf(err)
    IN  IF StatusOf(err) = 429 /\ retryAfter # ""
        THEN MathMax(Times1000(ParseInt(retryAfter)), delay)
        ELSE delay

\* `status === 401 || status === 403`
IsAuthStatus(status) == status = 401 \/ status = 403

\* mutation: no 4xx status fails fast
IsOtherClientError_never(status) == FALSE

\* `status && status >= 400 && status < 500 && status !== 429`
IsOtherClientError(status) ==
    status # NoStatus /\ status >= 400 /\ status < 500 /\ status # 429

\* mutation: the retried request is not rebuilt
WithNewJwt_stale(params, newJwt) == params

\* `{...params, headers: {...params.headers, Authorization: `Bearer ${newJwt}`}}`
WithNewJwt(params, newJwt) ==
    [params EXCEPT !.headers = [params.headers EXCEPT !.Authorization = Bearer(newJwt)]]

\* mutation: the inner catch rethrows whatever the retry failed with
RetryCatch_rethrow(retryErr) == retryErr

\* the inner catch around the post-refresh request
RetryCatch(retryErr) ==
    IF IsAuthStatus(StatusOf(retryErr))
    THEN AuthFatalError("Authentication failed after refresh", retryErr)
    ELSE retryErr

\* mutation: the outer catch rethrows without wrapping
RefreshCatch_rethrow(refreshErr) == refreshErr

\* the outer catch around the refresh and the post-refresh request
RefreshCatch(refreshErr) ==
    IF IsAuthFatal(refreshErr)
    THEN refreshErr
    ELSE AuthFatalError("JWT refresh failed", refreshErr)

\* the call itself: `for (let attempt = 0; ...) { try { return await requestUrl(params)`
RwrCall(caller, params) ==
    /\ rwPc' = "request"
    /\ rwCaller' = caller
    /\ rwParams' = params
    /\ rwAttempt' = 0
    /\ rwResult' = [type |-> "none"]
    /\ rwLog' = << >>
    /\ rwRefreshes' = << >>
    /\ rwWaits' = << >>

Logged(phase, outcome) ==
    Append(rwLog, [phase |-> phase, attempt |-> rwAttempt, params |-> rwParams, outcome |-> outcome])

\* the request of a loop attempt succeeds
RequestSucceeds ==
    /\ rwPc = "request"
    /\ \E resp \in Responses(rwParams) :
         /\ rwPc' = "returned"
         /\ rwResult' = resp
         /\ rwLog' = Logged("attempt", resp)
    /\ UNCHANGED <<rwCaller, rwParams, rwAttempt, rwRefreshes, rwWaits, jwt, restVars>>

\* mutation: the last-attempt test is off by one
AfterFailure_offByOne(attempt, err) ==
    LET status == StatusOf(err) IN
    IF IsAuthStatus(status) THEN "refresh"
    ELSE IF IsOtherClientError(status) THEN "threw"
    ELSE IF attempt = MAX_RETRIES THEN "threw"
    ELSE "backoff"

\* where the catch block of a loop attempt goes
AfterFailure(attempt, err) ==
    LET status == StatusOf(err) IN
    IF IsAuthStatus(status) THEN "refresh"
    ELSE IF IsOtherClientError(status) THEN "threw"
    ELSE IF attempt = MAX_RETRIES - 1 THEN "threw"
    ELSE "backoff"

\* the request of a loop attempt fails
RequestFails ==
    /\ rwPc = "request"
    /\ \E err \in FailuresSeenBy(rwCaller) :
         LET next == AfterFailure(rwAttempt, err) IN
         /\ rwPc' = next
         /\ rwResult' = IF next = "threw" THEN err ELSE rwResult
         /\ rwWaits' = IF next = "backoff"
                       THEN Append(rwWaits, BackoffDelay(rwAttempt, err))
                       ELSE rwWaits
         /\ rwLog' = Logged("attempt", err)
    /\ UNCHANGED <<rwCaller, rwParams, rwAttempt, rwRefreshes, jwt, restVars>>

\* `await new Promise((r) => setTimeout(r, delay))` elapses; `attempt++`
BackoffElapses ==
    /\ rwPc = "backoff"
    /\ rwAttempt' = rwAttempt + 1
    /\ IF rwAttempt + 1 < MAX_RETRIES
       THEN rwPc' = "request" /\ rwResult' = rwResult
       ELSE rwPc' = "returned" /\ rwResult' = [type |-> "undefined"]
    /\ UNCHANGED <<rwCaller, rwParams, rwLog, rwRefreshes, rwWaits, jwt, restVars>>

\* refreshJwtCallback() resolves: the caller's jwt is updated and the request rebuilt
RefreshSucceeds ==
    /\ rwPc = "refresh"
    /\ \E newJwt \in TokensIssuedTo(rwCaller) :
         /\ jwt' = newJwt
         /\ rwParams' = WithNewJwt(rwParams, newJwt)
         /\ rwRefreshes' = Append(rwRefreshes, [ok |-> TRUE, token |-> newJwt])
    /\ rwPc' = "retry"
    /\ UNCHANGED <<rwCaller, rwAttempt, rwResult, rwLog, rwWaits, restVars>>

\* refreshJwtCallback() rejects
RefreshFails ==
    /\ rwPc = "refresh"
    /\ \E err \in RefreshFailuresSeenBy(rwCaller) :
         /\ rwResult' = RefreshCatch(err)
         /\ rwRefreshes' = Append(rwRefreshes, [ok |-> FALSE, err |-> err])
    /\ rwPc' = "threw"
    /\ UNCHANGED <<rwCaller, rwParams, rwAttempt, rwLog, rwWaits, jwt, restVars>>

\* the post-refresh request succeeds
RetrySucceeds ==
    /\ rwPc = "retry"
    /\ \E resp \in Responses(rwParams) :
         /\ rwPc' = "returned"
         /\ rwResult' = resp
         /\ rwLog' = Logged("retry", resp)
    /\ UNCHANGED <<rwCaller, rwParams, rwAttempt, rwRefreshes, rwWaits, jwt, restVars>>

\* the post-refresh request fails
RetryFails ==
    /\ rwPc = "retry"
    /\ \E err \in FailuresSeenBy(rwCaller) :
         /\ rwPc' = "threw"
         /\ rwResult' = RefreshCatch(RetryCatch(err))
         /\ rwLog' = Logged("retry", err)
    /\ UNCHANGED <<rwCaller, rwParams, rwAttempt, rwRefreshes, rwWaits, jwt, restVars>>

RwrStep ==
    \/ RequestSucceeds
    \/ RequestFails
    \/ BackoffElapses
    \/ RefreshSucceeds
    \/ RefreshFails
    \/ RetrySucceeds
    \/ RetryFails

RwrDone == rwPc \in {"returned", "threw"}

----------------------------------------------------------------------------
(* State outside a call of requestWithRetry *)

InitRun ==
    [silent |-> FALSE,
     lastSyncId |-> NoId,          \* the snapshot taken at the start
     syncCount |-> 0,
     skipCount |-> 0,
     errorCount |-> 0,
     newestNoteId |-> NoId,
     shouldStop |-> FALSE,
     isFirstPage |-> TRUE,
     notes |-> << >>,              \* the page being processed
     idx |-> 1,                    \* the position of `note` in it
     rawNote |-> NullNote,
     existingFile |-> Undefined,
     finalPath |-> Undefined,
     err |-> [type |-> "none"]]    \* what syncBiji threw

InitGen == [jwt |-> 0, sinceId |-> NoId, isLastPage |-> FALSE]

InitHist ==
    [preCursor |-> NoId,   \* settings.lastSyncId when the run started
     pages |-> << >>,      \* the pages fetched
     taken |-> << >>,      \* the notes the note loop took up
     folderMade |-> FALSE,
     detail |-> "none",    \* how the fetchLinkDetail being waited after ended
     thrownAt |-> "none"]  \* the step of syncBiji that threw

DEFAULT_SETTINGS ==
    [refreshToken |-> "",
     lastSyncId |-> NoId,
     lastSyncTime |-> 0,
     autoSyncEnabled |-> FALSE]

\* no function of markdown.ts is being called directly
NoCall == [fn |-> "none"]

RwrIdle ==
    /\ rwPc = "idle"
    /\ rwCaller = "none"
    /\ rwParams = [url |-> [endpoint |-> "none"], headers |-> apiHeaders(0)]
    /\ rwAttempt = 0
    /\ rwResult = [type |-> "none"]
    /\ rwLog = << >>
    /\ rwRefreshes = << >>
    /\ rwWaits = << >>

\* the state before any sync run
InitPlugin ==
    /\ syncing = FALSE
    /\ ctl = "null"
    /\ timer = FALSE
    /\ autoSyncIntervalId = NoInterval
    /\ intervals = {}
    /\ authFailures = 0
    /\ notices = {}
    /\ pc = "idle"
    /\ run = InitRun
    /\ gen = InitGen
    /\ folder = (DOMAIN vault # {})
    /\ indexed = DOMAIN vault
    /\ runs = 0
    /\ hist = InitHist
    /\ last = << >>
    /\ ticks = 0

----------------------------------------------------------------------------
(* requestWithRetry called directly, as the unit tests call it *)

HarnessParams ==
    {[url |-> [endpoint |-> "example"], headers |-> apiHeaders(t)] : t \in Tokens}

InitRetry ==
    /\ rwPc = "request"
    /\ rwCaller = "harness"
    /\ rwParams \in HarnessParams
    /\ rwAttempt = 0
    /\ rwResult = [type |-> "none"]
    /\ rwLog = << >>
    /\ rwRefreshes = << >>
    /\ rwWaits = << >>
    /\ jwt = 1
    /\ settings = DEFAULT_SETTINGS
    /\ upstream = << >>
    /\ vault = << >>
    /\ InitPlugin
    /\ call = NoCall

NextRetry == RwrStep

SpecRetry == InitRetry /\ [][NextRetry]_vars

\* the same call when every request, refresh and timer it awaits settles
SpecRetryFair == SpecRetry /\ WF_vars(NextRetry)

----------------------------------------------------------------------------
(* The functions of markdown.ts called directly, as the unit tests call them *)

\* titles: empty, plain, with an unsafe character, with a leading dot, with
\* whitespace around, and one that sanitizes to nothing
TitlesGiven ==
    {<< >>, <<"a">>, <<"/", "a">>, <<".", "a">>, <<" ", "a", " ">>, <<"?">>}

\* identifiers: two with the same first six characters, and one shorter than six
IdsGiven == {IdOf(1), IdOf(2), <<"a", "b">>}

\* the third argument: omitted, null, or the identifier of the existing document
ExistingIdsGiven == {Undefined, Null} \cup {Defined(id) : id \in IdsGiven}

ResolveFilenameCalls ==
    {[fn |-> "resolveFilename", title |-> t, bijiId |-> id, existingBijiId |-> e,
      result |-> Undefined] :
        t \in TitlesGiven, id \in IdsGiven, e \in ExistingIdsGiven}

InitMarkdown ==
    /\ RwrIdle
    /\ jwt = 0
    /\ settings = DEFAULT_SETTINGS
    /\ upstream = << >>
    /\ vault = << >>
    /\ InitPlugin
    /\ call \in ResolveFilenameCalls

\* resolveFilename(title, bijiId, existingBijiId) returns
ResolveFilenameReturns ==
    /\ call.fn = "resolveFilename"
    /\ call.result = Undefined
    /\ call' = [call EXCEPT !.result =
                   Defined(resolveFilename(call.title, call.bijiId, call.existingBijiId))]
    /\ UNCHANGED <<rwVars, jwt, pluginVars, runVars, worldVars, hist, last, ticks>>

NextMarkdown == ResolveFilenameReturns

SpecMarkdown == InitMarkdown /\ [][NextMarkdown]_vars

----------------------------------------------------------------------------
(* syncBiji, driving the fetchNotes generator *)

\* the run is suspended on a promise that the environment settles
AwaitPoints == {"auth", "createFolder", "detailDelay", "create", "pageDelay", "save"}

\* no handler is running: outside events can happen
Quiescent ==
    \/ pc = "idle"
    \/ pc \in AwaitPoints
    \/ (pc \in {"pageReq", "detailReq"} /\ ~RwrDone)

\* mutation: the signal is never seen as aborted
Aborted_never == FALSE

\* `signal.aborted`
Aborted == ctl = "aborted"

\* mutation: the notice is shown whatever the mode
NoticeUnlessSilent_always(text) == notices \cup {text}

\* new Notice(text), unless the run is silent
NoticeUnlessSilent(text) == IF run.silent THEN notices ELSE notices \cup {text}

\* the frame of a finished requestWithRetry call is dropped
RwrRelease ==
    /\ rwPc' = "idle"
    /\ rwCaller' = "none"
    /\ rwParams' = [url |-> [endpoint |-> "none"], headers |-> apiHeaders(0)]
    /\ rwAttempt' = 0
    /\ rwResult' = [type |-> "none"]
    /\ rwLog' = << >>
    /\ rwRefreshes' = << >>
    /\ rwWaits' = << >>

\* vault.getAbstractFileByPath(path), when it is a TFile
ExistingFile(path) == IF path \in DOMAIN vault THEN Defined(path) ELSE Undefined

\* metadataCache.getFileCache(file)?.frontmatter?.biji_id
CachedBijiId(path) ==
    IF path \in indexed /\ path \in DOMAIN vault THEN vault[path].biji_id ELSE Undefined

\* mutation: every refresh token passes the validation
validateRefreshToken_accepts(refreshToken) == Null

\* auth.ts: the error message, or null when the token is not empty
validateRefreshToken(refreshToken) ==
    IF refreshToken = ""
    THEN Defined("Please configure refresh token in settings")
    ELSE Null

\* steps 1 and 2: snapshot the settings, validate the refresh token
SyncStart ==
    /\ pc = "start"
    /\ run' = [run EXCEPT !.lastSyncId = settings.lastSyncId]
    /\ hist' = [InitHist EXCEPT !.preCursor = settings.lastSyncId]
    /\ IF validateRefreshToken(settings.refreshToken) # Null
       THEN /\ notices' = NoticeUnlessSilent(validateRefreshToken(settings.refreshToken).value)
            /\ pc' = "returned"
       ELSE /\ notices' = notices
            /\ pc' = "auth"
    /\ UNCHANGED <<rwVars, jwt, settings, syncing, ctl, timer, timerVars, authFailures,
                   gen, worldVars, last, call, ticks>>

\* step 3: refreshJwt resolves; step 4: look the target folder up
AuthSucceeds ==
    /\ pc = "auth"
    /\ \E token \in TokensIssuedTo("syncBiji") : jwt' = token
    /\ pc' = IF folder THEN "forAwait" ELSE "createFolder"
    /\ runs' = runs + 1
    /\ UNCHANGED <<rwVars, pluginVars, run, gen, upstream, folder, vault, indexed, histVars>>

\* mutation: the failure of the first exchange is rethrown as it is
ObtainJwtCatch_rethrow(err) == err

\* the catch of step 3
ObtainJwtCatch(err) == AuthFatalError("Failed to obtain JWT", err)

\* step 3: refreshJwt rejects
AuthFails ==
    /\ pc = "auth"
    /\ \E err \in RefreshFailuresSeenBy("syncBiji") :
         run' = [run EXCEPT !.err = ObtainJwtCatch(err)]
    /\ hist' = [hist EXCEPT !.thrownAt = "auth"]
    /\ pc' = "threw"
    /\ UNCHANGED <<rwVars, jwt, pluginVars, gen, worldVars, last, call, ticks>>

\* step 4: vault.createFolder settles
CreateFolderSucceeds ==
    /\ pc = "createFolder"
    /\ folder' = TRUE
    /\ hist' = [hist EXCEPT !.folderMade = TRUE]
    /\ pc' = "forAwait"
    /\ UNCHANGED <<rwVars, jwt, pluginVars, run, gen, upstream, vault, indexed, runs, last, call, ticks>>

CreateFolderFails ==
    /\ pc = "createFolder"
    /\ run' = [run EXCEPT !.err = PlainError("createFolder failed")]
    /\ hist' = [hist EXCEPT !.thrownAt = "createFolder"]
    /\ pc' = "threw"
    /\ UNCHANGED <<rwVars, jwt, pluginVars, gen, worldVars, last, call, ticks>>

\* step 5: `fetchNotes(jwt, refreshJwtCallback, signal)`: the generator takes
\* the credential of this moment as its own parameter
IterateStart ==
    /\ pc = "forAwait"
    /\ gen' = [jwt |-> jwt, sinceId |-> NoId, isLastPage |-> FALSE]
    /\ pc' = "fetchTop"
    /\ UNCHANGED <<rwVars, jwt, pluginVars, run, worldVars, histVars>>

\* mutation: no page counts as the last one for being short
isLastPage_never(list) == FALSE

\* fetchNotes: a page is the last one when it is shorter than the page size
isLastPage(list) == Len(list) < PAGE_SIZE

\* mutation: the next page is asked for after the first note of this one
NextSinceId_first(list) == IF list[1].id = NoId THEN UndefinedText ELSE list[1].id

\* fetchNotes: the since_id of the next request is the identifier of the
\* last note of this page, as encodeURIComponent renders it
NextSinceId(list) ==
    IF list[Len(list)].id = NoId THEN UndefinedText ELSE list[Len(list)].id

\* fetchNotes, top of `while (true)`: check the signal, request a page
FetchTop ==
    /\ pc = "fetchTop"
    /\ IF Aborted
       THEN /\ pc' = "finalize"
            /\ UNCHANGED rwVars
       ELSE /\ RwrCall("fetchNotes",
                       [url |-> NotesUrl(gen.sinceId), headers |-> apiHeaders(gen.jwt)])
            /\ pc' = "pageReq"
    /\ UNCHANGED <<jwt, pluginVars, run, gen, worldVars, histVars>>

\* the page request ended: fetchNotes yields the page (or throws), and the
\* loop body starts with its abort check
PageSettles ==
    /\ pc = "pageReq"
    /\ RwrDone
    /\ IF rwPc = "threw"
       THEN /\ run' = [run EXCEPT !.err = rwResult]
            /\ hist' = [hist EXCEPT !.thrownAt = "pageRequest"]
            /\ pc' = "threw"
            /\ gen' = gen
       ELSE LET list == IF "list" \in DOMAIN rwResult.json THEN rwResult.json.list ELSE << >> IN
            /\ gen' = [gen EXCEPT !.isLastPage = isLastPage(list)]
            /\ hist' = [hist EXCEPT !.pages = Append(@, list)]
            /\ run' = [run EXCEPT !.notes = list, !.idx = 1]
            /\ pc' = IF Aborted THEN "finalize" ELSE "noteLoop"
    /\ RwrRelease
    /\ UNCHANGED <<jwt, pluginVars, worldVars, last, call, ticks>>

\* step 6h: the name the document is written under
FinalName(rawNote, existingFile) ==
    IF existingFile # Undefined
    THEN resolveFilename(rawNote.title, rawNote.id, CachedBijiId(existingFile.value))
    ELSE resolveFilename(rawNote.title, rawNote.id, Undefined)

\* steps 6g to 6i, up to the call of vault.create
CallCreate(r, rawNote) ==
    [r EXCEPT !.rawNote = rawNote,
              !.finalPath = Defined(PathOf(targetFolder, FinalName(rawNote, r.existingFile)))]

\* mutation: the stored cursor is not compared
ReachedCursor_never(lastSyncId, note) == FALSE

\* step 6b: `lastSyncId && note.id === lastSyncId`
ReachedCursor(lastSyncId, note) == lastSyncId # NoId /\ note.id = lastSyncId

\* mutation: the newest identifier is overwritten by every note
Capture_always(r, note) == note.id

\* `if (isFirstPage && newestNoteId === null && note.id) newestNoteId = note.id`
Capture(r, note) ==
    IF r.isFirstPage /\ r.newestNoteId = NoId /\ note.id # NoId
    THEN note.id
    ELSE r.newestNoteId

\* mutation: no note is recognised as synced before
AlreadySynced_never(existingFile, note) == FALSE

\* step 6c: `existingFile instanceof TFile` and `existingBijiId === note.id`
AlreadySynced(existingFile, note) ==
    existingFile # Undefined /\ CachedBijiId(existingFile.value) = Defined(note.id)

\* mutation: the original content is fetched for every note
NeedsDetail_always(rawNote) == TRUE

\* step 6e: `rawNote.noteType === "link"`
NeedsDetail(rawNote) == rawNote.noteType = "link"

\* one iteration of `for (const note of notes)`, up to its first await
NoteStep ==
    /\ pc = "noteLoop"
    /\ IF run.idx > Len(run.notes) \/ Aborted
       THEN \* the page is exhausted, or 6a: `if (signal.aborted) break`
            /\ pc' = "pageEnd"
            /\ UNCHANGED <<run, hist, rwVars>>
       ELSE LET note == run.notes[run.idx]
                r1 == [run EXCEPT !.newestNoteId = Capture(run, note)]
                rawNote == bijiNoteToRawNote(note)
                targetPath == PathOf(targetFolder, resolveFilename(rawNote.title, rawNote.id, Undefined))
                existingFile == ExistingFile(targetPath)
                r2 == [r1 EXCEPT !.existingFile = existingFile]
            IN  /\ hist' = [hist EXCEPT !.taken = Append(@, note)]
                /\ IF ReachedCursor(run.lastSyncId, note)
                   THEN /\ run' = [r1 EXCEPT !.shouldStop = TRUE]
                        /\ pc' = "pageEnd"
                        /\ UNCHANGED rwVars
                   ELSE IF rawNote = NullNote
                   THEN /\ run' = [r1 EXCEPT !.skipCount = @ + 1, !.idx = @ + 1]
                        /\ pc' = "noteLoop"
                        /\ UNCHANGED rwVars
                   ELSE IF AlreadySynced(existingFile, note)
                   THEN /\ run' = [r1 EXCEPT !.skipCount = @ + 1, !.idx = @ + 1]
                        /\ pc' = "noteLoop"
                        /\ UNCHANGED rwVars
                   ELSE IF NeedsDetail(rawNote)
                   THEN /\ run' = [r2 EXCEPT !.rawNote = rawNote]
                        /\ RwrCall("fetchLinkDetail",
                                   [url |-> DetailUrl(note.id), headers |-> apiHeaders(jwt)])
                        /\ pc' = "detailReq"
                   ELSE /\ run' = CallCreate(r2, rawNote)
                        /\ pc' = "create"
                        /\ UNCHANGED rwVars
    /\ UNCHANGED <<jwt, pluginVars, gen, worldVars, last, call, ticks>>

\* mutation: the per-note catch rethrows every error
NoteCatch_rethrow(r, err) == [pc |-> "threw", run |-> [r EXCEPT !.err = err]]

\* mutation: the per-note catch counts an AuthFatalError like any other failure
NoteCatch_countsAll(r, err) ==
    [pc |-> "noteLoop", run |-> [r EXCEPT !.errorCount = @ + 1, !.idx = @ + 1]]

\* mutation: the per-note catch swallows the failure without counting it
NoteCatch_uncounted(r, err) ==
    IF IsAuthFatal(err)
    THEN [pc |-> "threw", run |-> [r EXCEPT !.err = err]]
    ELSE [pc |-> "noteLoop", run |-> [r EXCEPT !.idx = @ + 1]]

\* the per-note catch: AuthFatalError propagates, anything else is counted
NoteCatch(r, err) ==
    IF IsAuthFatal(err)
    THEN [pc |-> "threw", run |-> [r EXCEPT !.err = err]]
    ELSE [pc |-> "noteLoop", run |-> [r EXCEPT !.errorCount = @ + 1, !.idx = @ + 1]]

\* mutation: fetchLinkDetail rethrows every failure of its request
fetchLinkDetail_rethrowsAll(settled, result) ==
    IF settled = "threw"
    THEN [threw |-> TRUE, err |-> result]
    ELSE IF result.json.has_content /\ result.json.content # << >>
         THEN [threw |-> FALSE, value |-> Defined(result.json.content)]
         ELSE [threw |-> FALSE, value |-> Null]

\* what fetchLinkDetail ends with once its request has settled: the content,
\* or null, or the AuthFatalError rethrown
fetchLinkDetail(settled, result) ==
    IF settled = "threw"
    THEN IF IsAuthFatal(result)
         THEN [threw |-> TRUE, err |-> result]
         ELSE [threw |-> FALSE, value |-> Null]
    ELSE IF result.json.has_content /\ result.json.content # << >>
         THEN [threw |-> FALSE, value |-> Defined(result.json.content)]
         ELSE [threw |-> FALSE, value |-> Null]

\* fetchLinkDetail ends: an error goes through the per-note catch; otherwise
\* the content, if any, is stored and the wait of DETAIL_DELAY starts
DetailSettles ==
    /\ pc = "detailReq"
    /\ RwrDone
    /\ LET ended == fetchLinkDetail(rwPc, rwResult) IN
       IF ended.threw
       THEN /\ run' = NoteCatch(run, ended.err).run
            /\ pc' = NoteCatch(run, ended.err).pc
            /\ hist' = IF NoteCatch(run, ended.err).pc = "threw"
                       THEN [hist EXCEPT !.thrownAt = "note"]
                       ELSE hist
       ELSE LET linkContent == ended.value IN
            /\ run' = IF linkContent # Null
                      THEN [run EXCEPT !.rawNote.originalContent =
                                           Defined(cleanHtml(linkContent.value))]
                      ELSE run
            /\ hist' = [hist EXCEPT !.detail =
                            IF rwPc = "threw" THEN "failed"
                            ELSE IF linkContent = Null THEN "empty" ELSE "content"]
            /\ pc' = "detailDelay"
    /\ RwrRelease
    /\ UNCHANGED <<jwt, pluginVars, gen, worldVars, last, call, ticks>>

\* the wait of DETAIL_DELAY elapses: steps 6g to 6i, up to the call of vault.create
DetailDelayElapses ==
    /\ pc = "detailDelay"
    /\ run' = CallCreate(run, run.rawNote)
    /\ hist' = [hist EXCEPT !.detail = "none"]
    /\ pc' = "create"
    /\ UNCHANGED <<rwVars, jwt, pluginVars, gen, worldVars, last, call, ticks>>

\* vault.create resolves: the document exists from now on
CreateSucceeds ==
    /\ pc = "create"
    /\ run.finalPath.value \notin DOMAIN vault
    /\ vault' = [p \in DOMAIN vault \cup {run.finalPath.value} |->
                    IF p = run.finalPath.value THEN buildMarkdown(run.rawNote) ELSE vault[p]]
    /\ run' = [run EXCEPT !.syncCount = @ + 1, !.idx = @ + 1]
    /\ pc' = "noteLoop"
    /\ UNCHANGED <<rwVars, jwt, pluginVars, gen, upstream, folder, indexed, runs, histVars>>

\* vault.create rejects: the path is taken, or the write fails
CreateFails ==
    /\ pc = "create"
    /\ \E err \in {PlainError("File already exists."), PlainError("write failed")} :
         /\ (err.message = "File already exists.") <=> (run.finalPath.value \in DOMAIN vault)
         /\ pc' = NoteCatch(run, err).pc
         /\ run' = NoteCatch(run, err).run
         /\ hist' = IF NoteCatch(run, err).pc = "threw"
                    THEN [hist EXCEPT !.thrownAt = "note"]
                    ELSE hist
    /\ UNCHANGED <<rwVars, jwt, pluginVars, gen, worldVars, last, call, ticks>>

\* mutation: the cursor is stored at the end of every page
PageEnd_storesCursor ==
    /\ pc = "pageEnd"
    /\ run' = [run EXCEPT !.isFirstPage = FALSE]
    /\ IF run.shouldStop \/ Aborted
       THEN /\ pc' = "finalize"
            /\ UNCHANGED <<notices, gen>>
       ELSE /\ notices' = NoticeUnlessSilent("Synced n notes...")
            /\ IF gen.isLastPage \/ Len(run.notes) = 0
               THEN /\ pc' = "finalize"
                    /\ gen' = gen
               ELSE /\ gen' = [gen EXCEPT !.sinceId = NextSinceId(run.notes)]
                    /\ pc' = "pageDelay"
    /\ settings' = [settings EXCEPT
                      !.lastSyncId = IF run.newestNoteId # NoId THEN run.newestNoteId ELSE @]
    /\ UNCHANGED <<rwVars, jwt, syncing, ctl, timer, timerVars, authFailures,
                   worldVars, histVars>>

\* after the note loop: leave the page loop, or let fetchNotes go on
PageEnd ==
    /\ pc = "pageEnd"
    /\ run' = [run EXCEPT !.isFirstPage = FALSE]
    /\ IF run.shouldStop \/ Aborted
       THEN /\ pc' = "finalize"
            /\ UNCHANGED <<notices, gen>>
       ELSE /\ notices' = NoticeUnlessSilent("Synced n notes...")
            /\ IF gen.isLastPage \/ Len(run.notes) = 0
               THEN /\ pc' = "finalize"
                    /\ gen' = gen
               ELSE /\ gen' = [gen EXCEPT !.sinceId = NextSinceId(run.notes)]
                    /\ pc' = "pageDelay"
    /\ UNCHANGED <<rwVars, jwt, settings, syncing, ctl, timer, timerVars, authFailures,
                   worldVars, histVars>>

\* the wait of PAGE_DELAY elapses
PageDelayElapses ==
    /\ pc = "pageDelay"
    /\ pc' = "fetchTop"
    /\ UNCHANGED <<rwVars, jwt, pluginVars, run, gen, worldVars, histVars>>

\* mutation: step 7 as a whole is skipped by a run that captured no identifier
Finalize_onlyWithNotes ==
    /\ pc = "finalize"
    /\ settings' = IF run.newestNoteId # NoId
                   THEN [settings EXCEPT !.lastSyncId = run.newestNoteId, !.lastSyncTime = runs]
                   ELSE settings
    /\ pc' = IF run.newestNoteId # NoId THEN "save" ELSE "returned"
    /\ UNCHANGED <<rwVars, jwt, syncing, ctl, timer, timerVars, authFailures, notices,
                   run, gen, worldVars, histVars>>

\* step 7: store the cursor and the time, call saveSettings
Finalize ==
    /\ pc = "finalize"
    /\ settings' = [settings EXCEPT
                      !.lastSyncId = IF run.newestNoteId # NoId THEN run.newestNoteId ELSE @,
                      !.lastSyncTime = runs]
    /\ pc' = "save"
    /\ UNCHANGED <<rwVars, jwt, syncing, ctl, timer, timerVars, authFailures, notices,
                   run, gen, worldVars, histVars>>

\* saveSettings resolves; step 8: the summary
SaveSucceeds ==
    /\ pc = "save"
    /\ notices' = NoticeUnlessSilent(IF Aborted THEN "Sync cancelled" ELSE "Sync complete")
    /\ pc' = "returned"
    /\ UNCHANGED <<rwVars, jwt, settings, syncing, ctl, timer, timerVars, authFailures,
                   run, gen, worldVars, histVars>>

SaveFails ==
    /\ pc = "save"
    /\ run' = [run EXCEPT !.err = PlainError("saveData failed")]
    /\ hist' = [hist EXCEPT !.thrownAt = "save"]
    /\ pc' = "threw"
    /\ UNCHANGED <<rwVars, jwt, pluginVars, gen, worldVars, last, call, ticks>>

----------------------------------------------------------------------------
(* The plugin (main.ts) and the settings tab (settings.ts) *)

MAX_AUTH_FAILURES == 3

NoteOfAge(k) == upstream[Len(upstream) + 1 - k]

\* the age of the note a cursor names (1 is the oldest note the service
\* holds), 0 when it names none
CursorAge(cursor) ==
    IF cursor # NoId /\ \E k \in 1..Len(upstream) : NoteOfAge(k).id = cursor
    THEN CHOOSE k \in 1..Len(upstream) : NoteOfAge(k).id = cursor
    ELSE 0

\* the identifiers of the notes the note loop of the run took up
TakenIds == {hist.taken[i].id : i \in 1..Len(hist.taken)} \ {NoId}

\* the notes with an identifier, newer than the cursor the run started from,
\* that its note loop did not take up, by their age
Missed ==
    {k \in 1..Len(upstream) :
        /\ NoteOfAge(k).id # NoId
        /\ k > CursorAge(hist.preCursor)
        /\ NoteOfAge(k).id \notin TakenIds}

\* what is kept of a run that ended: whether it was cancelled and returned,
\* and if so the notes it left; whether it returned without being cancelled,
\* and if so the number of notes the service held and the cursor stored then
Summary ==
    LET cancelled == Aborted /\ pc = "returned"
        completed == pc = "returned" /\ ctl # "aborted"
    IN  [cancelled |-> cancelled,
         missed |-> IF cancelled THEN Missed ELSE {},
         completed |-> completed,
         held |-> IF completed THEN Len(upstream) ELSE 0,
         cursor |-> IF completed THEN settings.lastSyncId ELSE NoId]

\* the locals of a syncBiji call that ended are gone
FrameDropped ==
    /\ jwt' = 0
    /\ run' = InitRun
    /\ gen' = InitGen
    /\ hist' = InitHist

\* stopAutoSync: clearInterval on the handle held, if any
stopAutoSync ==
    /\ intervals' = intervals \ {autoSyncIntervalId}
    /\ autoSyncIntervalId' = NoInterval
    /\ timer' = FALSE

\* mutation: startAutoSync without its call of stopAutoSync
startAutoSync_keepsPrevious ==
    /\ authFailures' = 0
    /\ \E handle \in Handles \ intervals :
         /\ intervals' = intervals \cup {handle}
         /\ autoSyncIntervalId' = handle
    /\ timer' = TRUE

\* startAutoSync: stopAutoSync, then the counter reset and window.setInterval,
\* which hands out a handle that no live interval has
startAutoSync ==
    /\ authFailures' = 0
    /\ \E handle \in Handles \ (intervals \ {autoSyncIntervalId}) :
         /\ intervals' = (intervals \ {autoSyncIntervalId}) \cup {handle}
         /\ autoSyncIntervalId' = handle
    /\ timer' = TRUE

\* mutation: the duplicate-run notice is shown for silent triggers too
TriggerSync_alwaysNotifies(silent) ==
    /\ Quiescent
    /\ IF syncing
       THEN /\ notices' = notices \cup {"Sync already in progress"}
            /\ UNCHANGED <<syncing, ctl, pc, run, runs>>
       ELSE /\ runs < MaxRuns
            /\ syncing' = TRUE
            /\ ctl' = "live"
            /\ notices' = IF silent THEN {} ELSE {"Syncing..."}
            /\ run' = [InitRun EXCEPT !.silent = silent]
            /\ pc' = "start"
            /\ runs' = runs
    /\ UNCHANGED <<rwVars, jwt, settings, timer, timerVars, authFailures, gen,
                   upstream, folder, vault, indexed, hist, last, call>>

\* mutation: triggerSync without the `if (this.syncing)` guard
TriggerSync_unguarded(silent) ==
    /\ Quiescent
    /\ runs < MaxRuns
    /\ syncing' = TRUE
    /\ ctl' = "live"
    /\ notices' = IF silent THEN {} ELSE {"Syncing..."}
    /\ run' = [InitRun EXCEPT !.silent = silent]
    /\ pc' = "start"
    /\ runs' = runs
    /\ UNCHANGED <<rwVars, jwt, settings, timer, timerVars, authFailures, gen,
                   upstream, folder, vault, indexed, hist, last, call>>

\* triggerSync, up to the call of syncBiji
TriggerSync(silent) ==
    /\ Quiescent
    /\ IF syncing
       THEN /\ notices' = IF silent THEN notices
                          ELSE notices \cup {"Sync already in progress"}
            /\ UNCHANGED <<syncing, ctl, pc, run, runs>>
       ELSE /\ runs < MaxRuns
            /\ syncing' = TRUE
            /\ ctl' = "live"
            /\ notices' = IF silent THEN {} ELSE {"Syncing..."}
            /\ run' = [InitRun EXCEPT !.silent = silent]
            /\ pc' = "start"
            /\ runs' = runs
    /\ UNCHANGED <<rwVars, jwt, settings, timer, timerVars, authFailures, gen,
                   upstream, folder, vault, indexed, hist, last, call>>

\* the ribbon icon or the "sync now" command
UserTriggersSync == TriggerSync(FALSE) /\ ticks' = ticks

\* the auto-sync interval fires
TimerFires == intervals # {} /\ ticks < MaxTicks /\ TriggerSync(TRUE) /\ ticks' = ticks + 1

\* triggerSync after syncBiji returned: the counter reset, and `finally`
SyncReturns ==
    /\ pc = "returned"
    /\ authFailures' = 0
    /\ syncing' = FALSE
    /\ ctl' = "null"
    /\ last' = <<Summary>>
    /\ pc' = "idle"
    /\ FrameDropped
    /\ UNCHANGED <<rwVars, settings, timer, timerVars, notices, worldVars, call, ticks>>

\* mutation: the threshold is compared before the failure is counted
SyncThrows_stopsLate ==
    /\ pc = "threw"
    /\ IF IsAuthFatal(run.err)
       THEN IF run.silent
            THEN /\ authFailures' = authFailures + 1
                 /\ IF authFailures >= MAX_AUTH_FAILURES
                    THEN /\ stopAutoSync
                         /\ notices' = notices \cup {"Auto-sync stopped"}
                    ELSE UNCHANGED <<timer, timerVars, notices>>
            ELSE /\ notices' = notices \cup {"Authentication failed"}
                 /\ UNCHANGED <<timer, timerVars, authFailures>>
       ELSE /\ notices' = NoticeUnlessSilent("Sync failed")
            /\ UNCHANGED <<timer, timerVars, authFailures>>
    /\ syncing' = FALSE
    /\ ctl' = "null"
    /\ last' = <<Summary>>
    /\ pc' = "idle"
    /\ FrameDropped
    /\ UNCHANGED <<rwVars, settings, worldVars, call, ticks>>

\* mutation: the catch block is not followed by the `finally` block
SyncThrows_noFinally ==
    /\ pc = "threw"
    /\ IF IsAuthFatal(run.err)
       THEN IF run.silent
            THEN /\ authFailures' = authFailures + 1
                 /\ IF authFailures + 1 >= MAX_AUTH_FAILURES
                    THEN /\ stopAutoSync
                         /\ notices' = notices \cup {"Auto-sync stopped"}
                    ELSE UNCHANGED <<timer, timerVars, notices>>
            ELSE /\ notices' = notices \cup {"Authentication failed"}
                 /\ UNCHANGED <<timer, timerVars, authFailures>>
       ELSE /\ notices' = NoticeUnlessSilent("Sync failed")
            /\ UNCHANGED <<timer, timerVars, authFailures>>
    /\ last' = <<Summary>>
    /\ pc' = "idle"
    /\ FrameDropped
    /\ UNCHANGED <<rwVars, settings, syncing, ctl, worldVars, call, ticks>>

\* triggerSync after syncBiji threw: `catch`, and `finally`
SyncThrows ==
    /\ pc = "threw"
    /\ IF IsAuthFatal(run.err)
       THEN IF run.silent
            THEN /\ authFailures' = authFailures + 1
                 /\ IF authFailures + 1 >= MAX_AUTH_FAILURES
                    THEN /\ stopAutoSync
                         /\ notices' = notices \cup {"Auto-sync stopped"}
                    ELSE UNCHANGED <<timer, timerVars, notices>>
            ELSE /\ notices' = notices \cup {"Authentication failed"}
                 /\ UNCHANGED <<timer, timerVars, authFailures>>
       ELSE /\ notices' = NoticeUnlessSilent("Sync failed")
            /\ UNCHANGED <<timer, timerVars, authFailures>>
    /\ syncing' = FALSE
    /\ ctl' = "null"
    /\ last' = <<Summary>>
    /\ pc' = "idle"
    /\ FrameDropped
    /\ UNCHANGED <<rwVars, settings, worldVars, call, ticks>>

\* the "cancel sync" command
CancelCommand ==
    /\ Quiescent
    /\ IF ctl # "null"
       THEN /\ ctl' = "aborted"
            /\ notices' = notices \cup {"Cancelling sync..."}
       ELSE /\ ctl' = ctl
            /\ notices' = notices \cup {"No sync in progress"}
    /\ UNCHANGED <<rwVars, jwt, settings, syncing, timer, timerVars, authFailures,
                   runVars, worldVars, histVars>>

\* onAutoSyncSettingsChanged, after the settings tab changed the settings
onAutoSyncSettingsChanged ==
    IF settings'.autoSyncEnabled
    THEN startAutoSync
    ELSE stopAutoSync /\ authFailures' = authFailures

\* the auto-sync toggle of the settings tab
AutoSyncToggled ==
    /\ Quiescent
    /\ settings' = [settings EXCEPT !.autoSyncEnabled = ~@]
    /\ onAutoSyncSettingsChanged
    /\ UNCHANGED <<rwVars, jwt, syncing, ctl, notices, runVars, worldVars, histVars>>

\* the interval dropdown of the settings tab, which is disabled while
\* auto-sync is off; the length of the interval is not modelled
IntervalChanged ==
    /\ Quiescent
    /\ settings.autoSyncEnabled
    /\ settings' = settings
    /\ onAutoSyncSettingsChanged
    /\ UNCHANGED <<rwVars, jwt, syncing, ctl, notices, runVars, worldVars, histVars>>

\* onunload: the interval is cleared and a run in progress is cancelled
onunload ==
    /\ Quiescent
    /\ stopAutoSync
    /\ ctl' = IF ctl # "null" THEN "aborted" ELSE ctl
    /\ UNCHANGED <<rwVars, jwt, settings, syncing, authFailures, notices,
                   runVars, worldVars, histVars>>

\* the "Reset sync state" button
ResetPressed ==
    /\ Quiescent
    /\ settings' = [settings EXCEPT !.lastSyncId = NoId]
    /\ notices' = notices \cup {"Sync state reset"}
    /\ UNCHANGED <<rwVars, jwt, syncing, ctl, timer, timerVars, authFailures, runVars, worldVars, histVars>>

\* the "Reset sync state" button, pressed between runs
ResetSyncState == pc = "idle" /\ ResetPressed

----------------------------------------------------------------------------
(* The world *)

\* a note is created on the service, newer than all others; this is modelled
\* between runs only, and while a run can still see it
UpstreamAdds ==
    /\ pc = "idle"
    /\ Len(upstream) < MaxNotes
    /\ runs < MaxRuns
    /\ \E note \in NotesOffered(Len(upstream) + 1) : upstream' = <<note>> \o upstream
    /\ UNCHANGED <<rwVars, jwt, pluginVars, runVars, folder, vault, indexed, runs, histVars>>

\* the metadata cache catches up with the documents written since
CacheIndexes ==
    /\ Quiescent
    /\ indexed # DOMAIN vault
    /\ indexed' = DOMAIN vault
    /\ UNCHANGED <<rwVars, jwt, pluginVars, runVars, upstream, folder, vault, runs, histVars>>

----------------------------------------------------------------------------
(* The plugin with its sync runs *)

\* a document of the user's, without biji_id, at the path of a note titled "a"
UserDocument ==
    [p \in {PathOf(targetFolder, <<"a">>)} |->
        [biji_id |-> Undefined, title |-> <<"a">>, content |-> << >>, original |-> Undefined]]

Init ==
    /\ RwrIdle
    /\ jwt = 0
    /\ settings \in {[DEFAULT_SETTINGS EXCEPT !.refreshToken = t] : t \in {"", "rt"}}
    /\ upstream = << >>
    /\ vault \in {<< >>, UserDocument}
    /\ InitPlugin
    /\ call = NoCall

\* the steps of a run that every service brings about
RunStep ==
    \/ SyncStart
    \/ AuthSucceeds
    \/ AuthFails
    \/ CreateFolderSucceeds
    \/ CreateFolderFails
    \/ IterateStart
    \/ FetchTop
    \/ PageSettles
    \/ NoteStep
    \/ CreateSucceeds
    \/ CreateFails
    \/ PageEnd
    \/ Finalize
    \/ SaveSucceeds
    \/ SaveFails
    \/ SyncReturns
    \/ SyncThrows

\* the steps that need a link note or a full page
LinkOrPagingStep ==
    \/ DetailSettles
    \/ DetailDelayElapses
    \/ PageDelayElapses

SyncStep == RunStep \/ LinkOrPagingStep

Next ==
    \/ UserTriggersSync
    \/ CancelCommand
    \/ ResetSyncState
    \/ UpstreamAdds
    \/ CacheIndexes
    \/ SyncStep
    \/ RwrStep

Spec == Init /\ [][Next]_vars

----------------------------------------------------------------------------
(* The plugin with the auto-sync interval and the settings tab, on a       *)
(* service that holds one text note: the run fetches one short page and no *)
(* link detail, so the steps of LinkOrPagingStep are never enabled         *)

InitAuto ==
    /\ RwrIdle
    /\ jwt = 0
    /\ settings \in {[DEFAULT_SETTINGS EXCEPT !.refreshToken = t] : t \in {"", "rt"}}
    /\ upstream = <<BijiNote(IdOf(1), <<"a">>, "plain_text")>>
    /\ vault = << >>
    /\ InitPlugin
    /\ call = NoCall

NextAuto ==
    \/ UserTriggersSync
    \/ TimerFires
    \/ AutoSyncToggled
    \/ IntervalChanged
    \/ onunload
    \/ ResetPressed
    \/ CancelCommand
    \/ RunStep
    \/ RwrStep

SpecAuto == InitAuto /\ [][NextAuto]_vars

----------------------------------------------------------------------------
(* Properties of syncBiji *)

\* the run of syncBiji returned without throwing, and triggerSync has not
\* resumed yet
Returned == pc = "returned"

\* the notes of the first fetched page that the note loop took up
FirstPageTaken ==
    IF hist.pages = << >> THEN << >>
    ELSE SubSeq(hist.taken, 1, Min(Len(hist.taken), Len(hist.pages[1])))

\* the first identifier among the notes of a sequence, NoId when there is none
RECURSIVE FirstId(_)
FirstId(notes) ==
    IF notes = << >> THEN NoId
    ELSE IF Head(notes).id # NoId THEN Head(notes).id
    ELSE FirstId(Tail(notes))

\* C1, as the specification states it: after a run that returned, the stored
\* cursor is the identifier of the first note of the first fetched page, and
\* the value from before the run when no fetched page held notes.
C1_CursorIsFirstNoteOfFirstPage ==
    Returned =>
        IF hist.pages # << >> /\ hist.pages[1] # << >>
        THEN settings.lastSyncId = hist.pages[1][1].id
        ELSE settings.lastSyncId = hist.preCursor

\* C1, amended: after a run that returned, the stored cursor is the first
\* identifier among the notes of the first fetched page that the note loop
\* took up before it was cancelled or stopped, and the value from before the
\* run when there is no such note.
C1_CursorIsFirstIdentifiedNoteTaken ==
    Returned =>
        IF FirstId(FirstPageTaken) # NoId
        THEN settings.lastSyncId = FirstId(FirstPageTaken)
        ELSE settings.lastSyncId = hist.preCursor

\* a run returned whose first page starts with a note without identifier, and
\* the cursor moved to the identifier of the note after it
C1_Witness ==
    /\ Returned
    /\ Len(hist.pages) >= 1
    /\ Len(hist.pages[1]) >= 2
    /\ hist.pages[1][1].id = NoId
    /\ hist.pages[1][2].id # NoId
    /\ settings.lastSyncId = hist.pages[1][2].id
    /\ settings.lastSyncId # hist.preCursor

\* the vault holds a document written for the note
HasDocument(id) == \E path \in DOMAIN vault : vault[path].biji_id = Defined(id)

\* C2: between runs, every note of the service with an identifier that is the
\* note the stored cursor names, or older than it, has a document in the vault.
C2_CursorIsSafeResumePoint ==
    pc = "idle" =>
        \A k \in 1..CursorAge(settings.lastSyncId) :
            NoteOfAge(k).id # NoId => HasDocument(NoteOfAge(k).id)

\* C3: when the run before was cancelled and the run after it completed without
\* being cancelled, the note loop of that run took up every note the cancelled
\* run had left.
C3_NextRunResumesAfterCancel ==
    (/\ Returned
     /\ ~Aborted
     /\ hist.pages # << >>
     /\ last # << >>
     /\ last[1].cancelled)
        => \A k \in last[1].missed : NoteOfAge(k).id \in TakenIds

\* C4, as the specification states it: whatever syncBiji throws is an AuthFatalError.
C4_ThrowsOnlyAuthFatalError ==
    pc = "threw" => IsAuthFatal(run.err)

\* C4, amended: a failure of the processing of a note never escapes syncBiji
\* unless it is an AuthFatalError; what syncBiji throws besides AuthFatalError
\* is the failure of the folder creation, of a page request, or of the
\* persistence of the settings, unchanged.
C4_NoteFailuresDoNotEscape ==
    (pc = "threw" /\ ~IsAuthFatal(run.err)) =>
        \/ hist.thrownAt = "createFolder" /\ run.err = PlainError("createFolder failed")
        \/ hist.thrownAt = "pageRequest" /\ run.err \in FailuresSeenBy("fetchNotes")
        \/ hist.thrownAt = "save" /\ run.err = PlainError("saveData failed")

\* a note failed and was counted, and then the request of the next page
\* failed for good and its failure escaped syncBiji
C4_Witness ==
    /\ pc = "threw"
    /\ run.errorCount > 0
    /\ hist.thrownAt = "pageRequest"
    /\ run.err = HttpError(500, "")

\* vault.create rejected: the run leaves the await of step 6i and the vault
\* is as it was
WriteRejected == pc = "create" /\ pc' # "create" /\ vault' = vault

\* C11: when the write of a note is rejected with a failure that is not an
\* AuthFatalError, the error counter grows by exactly one, the other counters
\* stay, nothing is thrown, and the note loop goes on with the next note of the
\* page; a run that counted errors can still return with its settings persisted.
C11_NoteErrorIsCountedAndIsolated ==
    [][WriteRejected =>
          /\ run'.errorCount = run.errorCount + 1
          /\ run'.syncCount = run.syncCount
          /\ run'.skipCount = run.skipCount
          /\ run'.idx = run.idx + 1
          /\ run'.notes = run.notes
          /\ pc' = "noteLoop"
          /\ hist'.thrownAt = "none"]_vars

\* the write of the first note of a page was rejected and counted, the note
\* after it was written, and the run returned with the cursor and the time stored
C11_Witness ==
    /\ Returned
    /\ Len(hist.taken) = 2
    /\ run.errorCount = 1
    /\ run.syncCount = 1
    /\ ~HasDocument(hist.taken[1].id)
    /\ HasDocument(hist.taken[2].id)
    /\ settings.lastSyncId = hist.taken[1].id
    /\ settings.lastSyncTime = runs

\* the detail request of a link note ended with an AuthFatalError
DetailAuthFatal ==
    pc = "detailReq" /\ RwrDone /\ rwPc = "threw" /\ IsAuthFatal(rwResult)

\* C12: an AuthFatalError raised by the detail fetch of a link note is thrown
\* by syncBiji in the same step, unchanged and uncounted; from there on no
\* note is taken up, no request is issued and nothing is written until
\* triggerSync has handled the failure.
C12_AuthFatalInNotePropagates ==
    [][/\ DetailAuthFatal =>
            /\ pc' = "threw"
            /\ run'.err = rwResult
            /\ run'.errorCount = run.errorCount
            /\ run'.syncCount = run.syncCount
            /\ run'.skipCount = run.skipCount
            /\ hist'.taken = hist.taken
            /\ hist'.pages = hist.pages
            /\ vault' = vault
       /\ (pc = "threw" /\ hist.thrownAt = "note") =>
            /\ IsAuthFatal(run.err)
            /\ pc' = "idle"
            /\ rwPc' = "idle"
            /\ vault' = vault
            /\ settings' = settings]_vars

\* the detail fetch of the first note of a page was fatal: syncBiji threw with
\* the second note of the page not taken up and nothing counted or stored
C12_Witness ==
    /\ pc = "threw"
    /\ hist.thrownAt = "note"
    /\ IsAuthFatal(run.err)
    /\ Len(run.notes) = 2
    /\ run.idx = 1
    /\ Len(hist.taken) = 1
    /\ run.errorCount = 0
    /\ settings.lastSyncId = hist.preCursor

\* the note loop is about to take up, uncancelled, the note whose identifier
\* is the cursor the run started from
AtCursorNote ==
    /\ pc = "noteLoop"
    /\ ctl # "aborted"
    /\ run.idx <= Len(run.notes)
    /\ hist.preCursor # NoId
    /\ run.notes[run.idx].id = hist.preCursor

\* C13: when the note loop comes to the note whose identifier equals the cursor
\* stored when the run started, that note is neither written nor counted nor
\* fetched in detail and the run is marked to stop; from then until the run has
\* ended no further note is taken up, no page is added, no request is issued
\* and no document is written.
C13_StopsAtStoredCursor ==
    [][/\ AtCursorNote =>
            /\ run'.shouldStop
            /\ pc' = "pageEnd"
            /\ vault' = vault
            /\ rwPc' = "idle"
            /\ run'.syncCount = run.syncCount
            /\ run'.skipCount = run.skipCount
            /\ run'.errorCount = run.errorCount
       /\ run.shouldStop =>
            /\ vault' = vault
            /\ rwPc' = "idle"
            /\ \/ pc' = "idle"
               \/ /\ pc' \in {"pageEnd", "finalize", "save", "returned", "threw"}
                  /\ run'.shouldStop
                  /\ hist'.taken = hist.taken
                  /\ hist'.pages = hist.pages]_vars

\* a run returned that stopped at the first note of a full page: the note
\* after it was not taken up and no second page was fetched
C13_Witness ==
    /\ Returned
    /\ run.shouldStop
    /\ Len(run.notes) = PAGE_SIZE
    /\ run.idx = 1
    /\ Len(hist.taken) = 1
    /\ hist.taken[1].id = hist.preCursor
    /\ Len(hist.pages) = 1
    /\ run.syncCount = 0

\* the user's cancellation has reached the abort controller of the run
Cancelled == ctl = "aborted"

\* C14: once the cancellation is set while the write of a note is in flight,
\* that write settles and is counted as written or as failed; the note loop
\* then takes up no further note, the page loop requests no further page, and
\* the run goes on to store the cursor candidate it captured (the stored cursor
\* stays when it captured none) and to persist the settings.
C14_CancelDuringWriteFinishesThatNote ==
    [][/\ (Cancelled /\ pc = "create" /\ pc' # "create") =>
            /\ pc' = "noteLoop"
            /\ run'.idx = run.idx + 1
            /\ run'.syncCount + run'.errorCount = run.syncCount + run.errorCount + 1
            /\ hist'.taken = hist.taken
       /\ (Cancelled /\ pc = "noteLoop") =>
            /\ pc' = "pageEnd"
            /\ run' = run
            /\ hist' = hist
            /\ vault' = vault
            /\ rwPc' = "idle"
       /\ (Cancelled /\ pc = "pageEnd") =>
            /\ pc' = "finalize"
            /\ hist' = hist
            /\ vault' = vault
            /\ rwPc' = "idle"
       /\ (Cancelled /\ pc = "finalize") =>
            /\ pc' = "save"
            /\ settings'.lastSyncId =
                  IF run.newestNoteId # NoId THEN run.newestNoteId ELSE settings.lastSyncId
            /\ hist' = hist
       /\ (Cancelled /\ pc = "save" /\ pc' # "save") =>
            /\ pc' \in {"returned", "threw"}
            /\ settings' = settings
            /\ hist'.taken = hist.taken]_vars

\* the user cancelled while the first, plain note of a page of two was being
\* written: its document exists, the second note was not taken up, no second
\* page was fetched, and the run returned with the first note as stored cursor
C14_Witness ==
    /\ Returned
    /\ Cancelled
    /\ Len(run.notes) = 2
    /\ Len(hist.taken) = 1
    /\ hist.taken[1].note_type = "plain_text"
    /\ HasDocument(hist.taken[1].id)
    /\ run.syncCount = 1
    /\ Len(hist.pages) = 1
    /\ settings.lastSyncId = hist.taken[1].id
    /\ settings.lastSyncId # hist.preCursor

\* a run is in progress, the run before it returned without being cancelled,
\* and since then the service got no note and the cursor was not reset
SecondRunInARow ==
    /\ pc \notin {"idle", "start"}
    /\ last # << >>
    /\ last[1].completed
    /\ last[1].held = Len(upstream)
    /\ last[1].cursor = hist.preCursor

\* C15: a run that follows a run which returned without being cancelled, with
\* no note added to the service and no reset of the cursor in between, writes
\* no document.
C15_SecondRunWritesNothing ==
    [][SecondRunInARow => vault' = vault]_vars

\* the second of two runs in a row returned: the first had written the only
\* note of the service, the second stopped at it and wrote and counted nothing
C15_Witness ==
    /\ Returned
    /\ SecondRunInARow
    /\ Len(upstream) = 1
    /\ HasDocument(upstream[1].id)
    /\ hist.taken = upstream
    /\ run.shouldStop
    /\ run.syncCount = 0

\* the name resolveFilename gives a note whose candidate name is taken
SuffixedName(rawNote) ==
    sanitizeFilename(rawNote.title) \o <<"-">> \o Slice(rawNote.id, 0, 6)

\* C16: when vault.create is called for a note whose candidate path held, when
\* the note was taken up, a document that has no biji_id at all, the path
\* written to is the suffixed one (title, "-", first six characters of the
\* identifier), not the candidate path.
C16_UnidentifiedFileIsSuffixed ==
    (/\ pc = "create"
     /\ run.existingFile # Undefined
     /\ vault[run.existingFile.value].biji_id = Undefined)
        => run.finalPath = Defined(PathOf(targetFolder, SuffixedName(run.rawNote)))

\* C17: the path vault.create is called with for a note is a path at which no
\* document exists, so that no write is rejected because of a name already
\* taken.  The case of C16, a document without biji_id at the candidate path,
\* is set aside here.
C17_FinalPathIsFree ==
    (/\ pc = "create"
     /\ ~(/\ run.existingFile # Undefined
          /\ vault[run.existingFile.value].biji_id = Undefined))
        => run.finalPath.value \notin DOMAIN vault

\* the path of the document named by the sanitized title of a note
CandidatePath(note) ==
    PathOf(targetFolder,
           sanitizeFilename(IF note.title = << >> THEN PlaceholderTitle ELSE note.title))

\* the note loop is about to take up, uncancelled, a note that is not the
\* cursor note, while the document at its candidate path is known to the
\* metadata cache with the note's own identifier
AtDuplicate ==
    /\ pc = "noteLoop"
    /\ ctl # "aborted"
    /\ run.idx <= Len(run.notes)
    /\ LET note == run.notes[run.idx] IN
        /\ note.id # NoId
        /\ ~(hist.preCursor # NoId /\ note.id = hist.preCursor)
        /\ CandidatePath(note) \in DOMAIN vault
        /\ CandidatePath(note) \in indexed
        /\ vault[CandidatePath(note)].biji_id = Defined(note.id)

\* C19: when the note loop takes up a note whose candidate path holds a
\* document that the metadata cache reports with the note's own identifier,
\* the note is counted as skipped and as nothing else, no detail request is
\* issued, no document is written, and the loop goes on with the next note.
C19_DuplicateIsSkipped ==
    [][AtDuplicate =>
          /\ run'.skipCount = run.skipCount + 1
          /\ run'.syncCount = run.syncCount
          /\ run'.errorCount = run.errorCount
          /\ run'.idx = run.idx + 1
          /\ pc' = "noteLoop"
          /\ rwPc' = "idle"
          /\ vault' = vault]_vars

\* a link note that an earlier run had written was taken up again after the
\* sync state was reset, and was skipped without a detail request
C19_Witness ==
    /\ pc = "noteLoop"
    /\ hist.preCursor = NoId
    /\ Len(hist.taken) = 1
    /\ run.idx = 2
    /\ hist.taken[1].note_type = "link"
    /\ CandidatePath(hist.taken[1]) \in indexed
    /\ vault[CandidatePath(hist.taken[1])].biji_id = Defined(hist.taken[1].id)
    /\ run.skipCount = 1
    /\ run.syncCount = 0
    /\ run.errorCount = 0
    /\ rwPc = "idle"

\* the note loop is about to take up, uncancelled, a note without identifier
AtUnidentified ==
    /\ pc = "noteLoop"
    /\ ctl # "aborted"
    /\ run.idx <= Len(run.notes)
    /\ run.notes[run.idx].id = NoId

\* C20: for a note without identifier bijiNoteToRawNote returns no record; the
\* note loop counts the note as skipped and as nothing else, writes no
\* document and issues no request for it, leaves the cursor candidate as it
\* was, and goes on with the next note of the page.
C20_UnidentifiedNoteIsSkipped ==
    [][AtUnidentified =>
          /\ bijiNoteToRawNote(run.notes[run.idx]) = NullNote
          /\ run'.skipCount = run.skipCount + 1
          /\ run'.syncCount = run.syncCount
          /\ run'.errorCount = run.errorCount
          /\ run'.newestNoteId = run.newestNoteId
          /\ run'.idx = run.idx + 1
          /\ run'.notes = run.notes
          /\ pc' = "noteLoop"
          /\ rwPc' = "idle"
          /\ vault' = vault]_vars

\* a run returned whose page held a note without identifier and, after it, a
\* note with one: the first was skipped, the second was written
C20_Witness ==
    /\ Returned
    /\ Len(hist.taken) = 2
    /\ hist.taken[1].id = NoId
    /\ hist.taken[2].id # NoId
    /\ run.skipCount = 1
    /\ run.errorCount = 0
    /\ run.syncCount = 1
    /\ HasDocument(hist.taken[2].id)
    /\ \A path \in DOMAIN vault : vault[path].biji_id # Defined(NoId)

\* fetchLinkDetail ends in this step
DetailEnds == pc = "detailReq" /\ pc' # "detailReq"

\* C27: fetchLinkDetail gives null when the service reports no supplementary
\* content and when its request failed, after the retries of the executor,
\* with anything but an AuthFatalError: the note keeps no original content,
\* is not counted as an error and goes on to be written; an AuthFatalError
\* of the executor leaves fetchLinkDetail and syncBiji as it is.
C27_DetailFailureIsNull ==
    [][DetailEnds =>
         IF rwPc = "threw" /\ IsAuthFatal(rwResult)
         THEN /\ pc' = "threw"
              /\ run'.err = rwResult
         ELSE IF rwPc = "threw" \/ ~rwResult.json.has_content
         THEN /\ pc' = "detailDelay"
              /\ run'.rawNote.originalContent = Undefined
              /\ run'.errorCount = run.errorCount
              /\ run'.idx = run.idx
         ELSE /\ pc' = "detailDelay"
              /\ run'.rawNote.originalContent = Defined(cleanHtml(rwResult.json.content))]_vars

\* the request for a link note's detail failed for good with an error that
\* is no AuthFatalError, and the run waits before it writes the note
C27_Witness ==
    /\ pc = "detailDelay"
    /\ hist.detail = "failed"
    /\ run.rawNote.originalContent = Undefined
    /\ run.errorCount = 0

\* the page fetchNotes yielded last in this run
LastPage == hist.pages[Len(hist.pages)]

\* fetchNotes is between two pages or waits for one
FetchingOn == pc \in {"pageDelay", "fetchTop", "pageReq"}

\* C29: a call of fetchNotes is finite: over a service holding n notes it
\* yields at most n \div PAGE_SIZE + 1 pages, every page before its last one
\* is full, and once it has yielded a page shorter than the page size (an
\* empty one included) it neither waits for nor requests another.
C29_FetchNotesIsFinite ==
    /\ Len(hist.pages) <= Len(upstream) \div PAGE_SIZE + 1
    /\ \A i \in 1..Len(hist.pages) - 1 : Len(hist.pages[i]) = PAGE_SIZE
    /\ (hist.pages # << >> /\ Len(LastPage) < PAGE_SIZE) => ~FetchingOn

\* fetchNotes yielded a full page and then an empty one, and the run went on
\* to its end
C29_Witness ==
    /\ Len(hist.pages) = 2
    /\ Len(hist.pages[1]) = PAGE_SIZE
    /\ hist.pages[2] = << >>
    /\ pc = "finalize"

\* C30: the first page request of fetchNotes carries an empty since_id and
\* every later one the identifier of the last note of the page before it,
\* through all attempts of the request; a request follows only a full page.
C30_SinceIdFollowsLastNote ==
    pc = "pageReq" =>
        /\ rwParams.url.endpoint = "notes"
        /\ rwParams.url.limit = PAGE_SIZE
        /\ IF hist.pages = << >>
           THEN rwParams.url.since_id = NoId
           ELSE /\ Len(LastPage) = PAGE_SIZE
                /\ rwParams.url.since_id = LastPage[Len(LastPage)].id
                /\ rwParams.url.since_id # NoId

\* the second page is being requested, after the identifier of the first
\* note the service ever held, which closed the full first page
C30_Witness ==
    /\ pc = "pageReq"
    /\ Len(hist.pages) = 1
    /\ rwParams.url.since_id = IdOf(1)
    /\ rwLog # << >>

\* the cancellation signal of the run is set
SignalSet == ctl = "aborted"

\* C31: fetchNotes looks at the signal before each page request: with the
\* signal set, the generator at the head of its loop ends without touching
\* the request executor, and from then on the run neither starts a page
\* request nor waits for a next page.
C31_NoPageRequestOnceCancelled ==
    [][/\ (SignalSet /\ pc = "fetchTop") => (pc' = "finalize" /\ UNCHANGED rwVars)
       /\ (SignalSet /\ pc # "pageReq") => pc' # "pageReq"
       /\ (SignalSet /\ pc # "pageDelay") => pc' # "pageDelay"]_vars

\* the run was cancelled during the wait after a full first page: the
\* generator had taken its next since_id and ended at the head of its loop
C31_Witness ==
    /\ pc = "finalize"
    /\ SignalSet
    /\ Len(hist.pages) = 1
    /\ gen.sinceId # NoId
    /\ rwPc = "idle"

\* the notes the note loop of this run took up so far
TakenNotes == {hist.taken[i] : i \in 1..Len(hist.taken)}

\* C32: a detail request is started only by the note loop, for a note of
\* kind "link" that has an identifier, is not the cursor note and is not
\* known as synced at its candidate path, and that the run did not take up
\* before; when the detail fetch has ended without content the run calls
\* vault.create for the note all the same, and when that resolves the note
\* is counted as synced and its document has no original-content section.
C32_DetailOnlyForNewLinkNotes ==
    [][/\ (pc # "detailReq" /\ pc' = "detailReq") =>
            /\ pc = "noteLoop"
            /\ run.idx <= Len(run.notes)
            /\ LET note == run.notes[run.idx] IN
                /\ note.note_type = "link"
                /\ note.id # NoId
                /\ ~(run.lastSyncId # NoId /\ note.id = run.lastSyncId)
                /\ ~(/\ CandidatePath(note) \in DOMAIN vault \cap indexed
                     /\ vault[CandidatePath(note)].biji_id = Defined(note.id))
                /\ note \notin TakenNotes
                /\ rwCaller' = "fetchLinkDetail"
                /\ rwParams'.url = DetailUrl(note.id)
                /\ rwLog' = << >>
       /\ (pc = "detailDelay" /\ pc' # "detailDelay") =>
            /\ pc' = "create"
            /\ run'.rawNote = run.rawNote
            /\ run'.syncCount = run.syncCount
            /\ run'.errorCount = run.errorCount
       /\ (/\ pc = "create"
           /\ run.rawNote.noteType = "link"
           /\ run.rawNote.originalContent = Undefined
           /\ vault' # vault) =>
            /\ run'.syncCount = run.syncCount + 1
            /\ run'.skipCount = run.skipCount
            /\ run'.errorCount = run.errorCount
            /\ vault'[run.finalPath.value].biji_id = Defined(run.rawNote.id)
            /\ vault'[run.finalPath.value].original = Undefined]_vars

\* the first note of the run was a link note whose detail fetch gave no
\* content; its document was written without the section and counted
C32_Witness ==
    /\ pc = "noteLoop"
    /\ Len(hist.taken) = 1
    /\ hist.taken[1].note_type = "link"
    /\ run.syncCount = 1
    /\ run.errorCount = 0
    /\ CandidatePath(hist.taken[1]) \in DOMAIN vault
    /\ vault[CandidatePath(hist.taken[1])].biji_id = Defined(hist.taken[1].id)
    /\ vault[CandidatePath(hist.taken[1])].original = Undefined

\* C33: a run writes the settings in one step only, step 7, which it takes
\* once, after the page loop: there the last-sync time is set to the time of
\* the run, the cursor to the captured identifier if there is one and left
\* alone otherwise, and saveSettings is called; this happens in every run
\* that reaches step 7, also when it found no note.  No other step of a run
\* changes the settings, and after step 7 the run only ends.
C33_SettingsWrittenOnceAtTheEnd ==
    [][/\ pc = "finalize" =>
            /\ pc' = "save"
            /\ settings'.lastSyncTime = runs
            /\ settings'.lastSyncTime # settings.lastSyncTime
            /\ settings'.lastSyncId =
                   IF run.newestNoteId # NoId THEN run.newestNoteId ELSE settings.lastSyncId
       /\ (pc \notin {"finalize", "idle"}) => settings' = settings
       /\ pc = "save" => pc' \in {"save", "returned", "threw"}
       /\ pc \in {"returned", "threw"} => pc' \in {pc, "idle"}
       /\ pc' = "finalize" => pc \in {"finalize", "fetchTop", "pageReq", "pageEnd"}]_vars

\* a run over a service without notes fetched one empty page and reached
\* step 7: the time is written, the cursor is still null, the save is pending
C33_Witness ==
    /\ pc = "save"
    /\ hist.pages = << << >> >>
    /\ hist.taken = << >>
    /\ runs = 1
    /\ settings.lastSyncTime = 1
    /\ settings.lastSyncId = NoId

\* the settings hold the cursor and the time they held when the run started
\* (a run past the exchange has a time of its own, `runs`)
PreRunSettingsKept ==
    /\ settings.lastSyncId = hist.preCursor
    /\ (hist.thrownAt = "auth" \/ settings.lastSyncTime < runs)

\* no step of a run removes or changes a document of the destination
DocumentsRemain ==
    \A p \in DOMAIN vault : p \in DOMAIN vault' /\ vault'[p] = vault[p]

\* C35 (as stated): whenever syncBiji throws, the settings hold their
\* pre-run cursor and time, and the documents written by then remain.
C35_ThrowKeepsSettings ==
    [][/\ pc' = "threw" => PreRunSettingsKept'
       /\ pc # "idle" => DocumentsRemain]_vars

\* C35 (amended): whenever syncBiji throws before step 7 (at the exchange,
\* the folder creation, a page request or a note), the settings hold their
\* pre-run cursor and time; when it throws because saveSettings rejected,
\* the settings in memory already hold the time of the run and the captured
\* cursor.  In both cases triggerSync's handling changes neither, and the
\* documents written by then remain.
C35_ThrowBeforeStep7KeepsSettings ==
    [][/\ (pc' = "threw" /\ hist'.thrownAt # "save") => PreRunSettingsKept'
       /\ (pc' = "threw" /\ hist'.thrownAt = "save") =>
            /\ settings'.lastSyncTime = runs'
            /\ settings'.lastSyncId =
                   IF run'.newestNoteId # NoId THEN run'.newestNoteId ELSE hist'.preCursor
       /\ pc = "threw" => (settings' = settings /\ vault' = vault)
       /\ pc # "idle" => DocumentsRemain]_vars

\* the run wrote the first note of the page and threw at the second, a link
\* note whose detail request ended in an AuthFatalError: the document is
\* there, the cursor and the time are those of before the run
C35_Witness ==
    /\ pc = "threw"
    /\ hist.thrownAt = "note"
    /\ IsAuthFatal(run.err)
    /\ run.syncCount = 1
    /\ DOMAIN vault # {}
    /\ settings.lastSyncId = NoId
    /\ settings.lastSyncTime = 0
    /\ runs = 1

\* a request of the run is at its first attempt
FirstAttempt ==
    /\ rwCaller \in {"fetchNotes", "fetchLinkDetail"}
    /\ rwPc = "request"
    /\ rwAttempt = 0
    /\ rwLog = << >>

\* C36: every request a run starts carries, at its first attempt, the
\* credential the run holds at that moment: the one obtained at the start,
\* or the one the refresh callback produced last.
C36_RequestsCarryCurrentCredential ==
    FirstAttempt => rwParams.headers = apiHeaders(jwt)


\* the notes the run has taken past the stop test of step 6b
Processed == Len(hist.taken) - (IF run.shouldStop THEN 1 ELSE 0)

\* the note loop is inside the iteration of a note: at the awaits of 6e and 6i
InsideNote == pc \in {"detailReq", "detailDelay", "create"}

\* the run is past its note loop for good
AtFinalization == pc \in {"finalize", "save", "returned"}

\* every note taken up is in exactly one counter as soon as its iteration ended
CountersMatchNotes ==
    /\ pc \in {"noteLoop", "pageEnd", "pageDelay", "fetchTop", "pageReq"} \cup {"finalize", "save", "returned"}
         => run.syncCount + run.skipCount + run.errorCount = Processed
    /\ InsideNote => run.syncCount + run.skipCount + run.errorCount = Processed - 1

\* a step of the iteration of one note adds one to one counter, or to none
\* while the iteration goes on; synced is added to by a resolved
\* vault.create and by nothing else
OneCounterPerNote ==
    LET dSync == run'.syncCount - run.syncCount
        dSkip == run'.skipCount - run.skipCount
        dErr == run'.errorCount - run.errorCount
        created == DOMAIN vault' \ DOMAIN vault
    IN  pc \in {"noteLoop", "detailReq", "detailDelay", "create"} =>
          /\ {dSync, dSkip, dErr} \subseteq {0, 1}
          /\ dSync + dSkip + dErr <= 1
          /\ dSync + dSkip + dErr = 1 => run'.idx = run.idx + 1 /\ pc' = "noteLoop"
          /\ dSync = 1 <=> created # {}
          /\ dSync = 1 => created = {run.finalPath.value}

\* C38: when a run is at its finalization, synced + skipped + errors is the
\* number of notes its loop took past the stop test; each of them has added
\* one to exactly one counter, and synced was added to exactly by the
\* vault.create calls that resolved.
C38_CountersPartitionNotes ==
    /\ []CountersMatchNotes
    /\ [][OneCounterPerNote]_vars

\* a finalizing run that wrote the document of one note and stopped at the
\* next, its cursor: two notes iterated, one counted
C38_Witness ==
    /\ AtFinalization
    /\ run.syncCount = 1
    /\ run.errorCount + run.skipCount = 0
    /\ run.shouldStop
    /\ Len(hist.taken) = 2
----------------------------------------------------------------------------
(* Properties of the plugin (checked under SpecAuto) *)

\* the step is a trigger: the interval fired, or the user asked for a sync
IsTrigger == ticks' # ticks \/ UserTriggersSync

\* the run in progress and everything it works on
runState == <<pc, run, gen, syncing, ctl, hist, jwt, settings, rwVars, worldVars>>

\* C21: a run is active exactly while `syncing` is set; a trigger that arrives
\* while a run is active leaves the run and all it works on as they are; a run
\* starts only in the very step of a trigger that finds no run active; and a
\* run that ended leaves the plugin idle, with no run started in its place.
C21_AtMostOneRunActive ==
    [][/\ syncing <=> pc # "idle"
       /\ (syncing /\ IsTrigger) => UNCHANGED runState
       /\ (pc' = "start" /\ pc # "start") => (pc = "idle" /\ ~syncing /\ IsTrigger)
       /\ (pc = "idle" /\ pc' # "idle") => (pc' = "start" /\ IsTrigger)
       /\ (pc \in {"returned", "threw"} /\ pc' # pc) => (pc' = "idle" /\ ~syncing')]_vars

\* the first run, started by the user, has returned; while it was active the
\* interval fired once and the user asked for a sync once more
C21_Witness ==
    /\ pc = "returned"
    /\ last = << >>
    /\ ~run.silent
    /\ ticks = 1
    /\ "Sync already in progress" \in notices
    /\ hist.pages # << >>

\* C22: when the interval fires while a run is active, no notice is added;
\* when the user asks for a sync while a run is active, the notice "Sync
\* already in progress" is added and no other.
C22_DuplicateNoticeOnlyForUser ==
    [][/\ (syncing /\ ticks' # ticks) => notices' = notices
       /\ (syncing /\ UserTriggersSync) =>
              notices' = notices \cup {"Sync already in progress"}]_vars

\* during the first run, which the interval started, the interval fired once
\* more and the user asked for a sync: the one notice shown is the user's
C22_Witness ==
    /\ syncing
    /\ run.silent
    /\ last = << >>
    /\ ticks = 2
    /\ notices = {"Sync already in progress"}

\* a silent run that threw an AuthFatalError is being handled by triggerSync
SilentAuthFailureHandled ==
    pc = "threw" /\ run.silent /\ IsAuthFatal(run.err) /\ pc' = "idle"

SilentStep ==
    \/ ticks' # ticks
    \/ /\ syncing
       /\ run.silent
       /\ pc' # pc \/ run' # run \/ rwPc' # rwPc

C25_EmptyTokenIsNoOp ==
    [][/\ (pc = "start" /\ settings.refreshToken = "") =>
            /\ pc' = "returned"
            /\ settings' = settings
            /\ jwt' = jwt
            /\ UNCHANGED rwVars
            /\ UNCHANGED worldVars
            /\ notices' \subseteq notices \cup {"Please configure refresh token in settings"}
       /\ (pc # "idle" /\ settings.refreshToken = "") =>
            /\ pc \in {"start", "returned"}
            /\ pc' \in {"returned", "idle"}
            /\ rwPc = "idle"
            /\ jwt = 0
            /\ ~hist.folderMade
            /\ hist.pages = << >>
            /\ settings' = settings
            /\ UNCHANGED worldVars]_vars

\* a manual run with an empty refresh token returned: the user was told to
\* configure it, and nothing was fetched, created or stored
C25_Witness ==
    /\ pc = "returned"
    /\ settings.refreshToken = ""
    /\ ~run.silent
    /\ notices = {"Syncing...", "Please configure refresh token in settings"}
    /\ jwt = 0
    /\ ~folder
    /\ settings.lastSyncTime = 0
    /\ settings.lastSyncId = NoId

\* the first exchange of the refresh token ended without a credential
ExchangeFailed == pc = "auth" /\ pc' # "auth" /\ jwt' = jwt

\* C26: when the first exchange of the refresh token fails, whatever the
\* failure, syncBiji throws in that step an AuthFatalError "Failed to obtain
\* JWT" that carries the failure as its cause; no folder was created, no page
\* requested, no document written and no setting changed by the run, and
\* none is until triggerSync has handled the error.
C26_FailedExchangeIsFatal ==
    [][/\ ExchangeFailed =>
            /\ pc' = "threw"
            /\ IsAuthFatal(run'.err)
            /\ run'.err.message = "Failed to obtain JWT"
            /\ run'.err.cause \in RefreshFailures
            /\ ~hist'.folderMade
            /\ hist'.pages = << >>
            /\ settings' = settings
            /\ UNCHANGED rwVars
            /\ UNCHANGED worldVars
       /\ (pc = "threw" /\ hist.thrownAt = "auth") =>
            /\ pc' = "idle"
            /\ settings' = settings
            /\ UNCHANGED rwVars
            /\ UNCHANGED worldVars]_vars

\* the exchange failed with a transport failure in the first run: syncBiji
\* threw the AuthFatalError before anything was fetched, created or stored
C26_Witness ==
    /\ pc = "threw"
    /\ hist.thrownAt = "auth"
    /\ run.err = AuthFatalError("Failed to obtain JWT", NetworkError)
    /\ last = << >>
    /\ ~folder
    /\ rwLog = << >>
    /\ settings.lastSyncTime = 0

\* "Reset sync state" was pressed since the last run was started
ResetSinceLastStart == "Sync state reset" \in notices

\* C28: once "Reset sync state" was pressed, during a run or between runs,
\* the next run starts from a cleared cursor: whenever no run is active and
\* the reset came after the start of the last run, the stored cursor, which
\* the next run takes as its snapshot, is null.
C28_ResetClearsCursorForNextRun ==
    (pc = "idle" /\ ResetSinceLastStart) => settings.lastSyncId = NoId

\* startAutoSync is called in this step
StartsAutoSync == IntervalChanged \/ (AutoSyncToggled /\ settings'.autoSyncEnabled)

\* stopAutoSync is called in this step, and setInterval is not
StopsAutoSync ==
    \/ onunload
    \/ (AutoSyncToggled /\ ~settings'.autoSyncEnabled)
    \/ (pc = "threw" /\ timer /\ ~timer')

\* C34: whatever the order in which the auto-sync methods are called, at
\* most one interval of the plugin is live, and it is the one whose handle
\* the plugin holds: a call of startAutoSync leaves exactly the interval it
\* created, whether or not one was live before, and a call of stopAutoSync
\* (by the toggle, by onunload, or after the third failure) leaves none.
C34_AtMostOneIntervalLive ==
    [][/\ Cardinality(intervals') <= 1
       /\ intervals' = IF autoSyncIntervalId' = NoInterval THEN {} ELSE {autoSyncIntervalId'}
       /\ StartsAutoSync => (autoSyncIntervalId' \in Handles /\ intervals' = {autoSyncIntervalId'})
       /\ StopsAutoSync => (autoSyncIntervalId' = NoInterval /\ intervals' = {})]_vars

\* the plugin was unloaded during a run while auto-sync was on and its
\* interval had fired: the run is cancelled without the notice of the cancel
\* command, and no interval is left
C34_Witness ==
    /\ ctl = "aborted"
    /\ "Cancelling sync..." \notin notices
    /\ settings.autoSyncEnabled
    /\ authFailures < MAX_AUTH_FAILURES
    /\ ticks >= 1
    /\ intervals = {}
    /\ autoSyncIntervalId = NoInterval

\* syncBiji has ended and triggerSync has not yet run its catch and finally
RunEnded == pc \in {"returned", "threw"}

\* C39: `syncing` is set exactly while a run started by triggerSync is in
\* progress, and exactly then the plugin holds an abort controller; the step
\* that follows the end of syncBiji, whether it returned, threw an
\* AuthFatalError or threw anything else, clears both; and a trigger that
\* finds the flag clear starts a run whose signal is new and not aborted.
C39_SyncingFlagFollowsRun ==
    [][/\ syncing <=> pc # "idle"
       /\ syncing <=> ctl # "null"
       /\ (RunEnded /\ pc' # pc) => (~syncing' /\ ctl' = "null" /\ pc' = "idle")
       /\ (IsTrigger /\ ~syncing) => (syncing' /\ ctl' = "live" /\ pc' = "start")
       /\ (syncing /\ ~RunEnded) => (syncing' /\ ctl' # "null")]_vars

\* the first run was cancelled and returned; the run started after it is in
\* progress with a signal that is not aborted
C39_Witness ==
    /\ last # << >>
    /\ last[1].cancelled
    /\ syncing
    /\ ctl = "live"
    /\ pc = "pageReq"

\* the step starts the interval: setInterval was called
IntervalStarted == autoSyncIntervalId' # NoInterval /\ (AutoSyncToggled \/ IntervalChanged)

\* C40: the counter of consecutive auth failures is between 0 and
\* MAX_AUTH_FAILURES, and while it is MAX_AUTH_FAILURES no interval is live;
\* the step that follows a return of syncBiji, and every step that starts
\* the interval, sets it to 0.
C40_AuthFailuresBounded ==
    [][/\ authFailures \in 0..MAX_AUTH_FAILURES
       /\ authFailures' \in 0..MAX_AUTH_FAILURES
       /\ authFailures = MAX_AUTH_FAILURES => (intervals = {} /\ autoSyncIntervalId = NoInterval /\ ~timer)
       /\ authFailures' = MAX_AUTH_FAILURES => (intervals' = {} /\ autoSyncIntervalId' = NoInterval /\ ~timer')
       /\ (pc = "returned" /\ pc' # pc) => authFailures' = 0
       /\ IntervalStarted => authFailures' = 0]_vars

\* the interval was stopped by the third failure and the user has switched
\* auto-sync off and on again: the interval is live and the counter is 0
C40_Witness ==
    /\ "Auto-sync stopped" \in notices
    /\ authFailures = 0
    /\ intervals # {}
    /\ ticks >= MAX_AUTH_FAILURES
    /\ pc = "idle"

----------------------------------------------------------------------------
(* Properties of markdown.ts (checked under SpecMarkdown) *)

\* C18: resolveFilename returns the sanitized title (the placeholder for an
\* empty title) followed by "-" and the first six characters of the note's
\* identifier exactly when a third argument is given (it is not undefined) and
\* differs from the note's identifier; otherwise, with the argument omitted or
\* equal to the identifier, it returns the sanitized title alone.
C18_SuffixIffGivenAndDiffers ==
    (call.fn = "resolveFilename" /\ call.result # Undefined) =>
        LET base == sanitizeFilename(IF call.title = << >> THEN PlaceholderTitle ELSE call.title)
            given == call.existingBijiId # Undefined
            differs == call.existingBijiId # Defined(call.bijiId)
            suffix == <<"-">> \o SubSeq(call.bijiId, 1, Min(6, Len(call.bijiId)))
        IN  /\ (given /\ differs) => call.result.value = base \o suffix
            /\ ~(given /\ differs) => call.result.value = base
            /\ call.result.value = base \o suffix <=> (given /\ differs)

\* resolveFilename returned the suffixed name for a note whose candidate name
\* belongs to a document with another identifier that starts with the same
\* six characters
C18_Witness ==
    /\ call.fn = "resolveFilename"
    /\ call.title = <<"/", "a">>
    /\ call.bijiId = IdOf(1)
    /\ call.existingBijiId = Defined(IdOf(2))
    /\ call.result = Defined(<<"a", "-", "1", "0", "0", "0", "0", "0">>)

----------------------------------------------------------------------------
(* Properties of requestWithRetry (checked under SpecRetry) *)

IsFailure(outcome) == outcome.type \in {"HttpError", "NetworkError", "Error"}
IsResponse(outcome) == outcome.type = "Response"

\* a 5xx, a 429 or a failure with no status
IsRetryable(outcome) ==
    /\ outcome.type \in {"HttpError", "NetworkError"}
    /\ \/ outcome.type = "NetworkError"
       \/ outcome.status = 429
       \/ (outcome.status >= 500 /\ outcome.status <= 599)

HasAuthStatus(outcome) ==
    outcome.type = "HttpError" /\ outcome.status \in {401, 403}

LogIndices == 1..Len(rwLog)

\* C5 (as claimed): after a 401/403 and a successful refresh, a retry that fails
\* with anything other than 401/403 has that same failure thrown to the caller
\* as-is, and it is the last request.
C5_RetryFailurePropagatedAsIs ==
    \A i \in LogIndices :
        (rwLog[i].phase = "retry" /\ ~IsResponse(rwLog[i].outcome)
           /\ ~HasAuthStatus(rwLog[i].outcome))
        => (i = Len(rwLog) /\ rwPc = "threw" /\ rwResult = rwLog[i].outcome)

\* C6: a 401/403 whose post-refresh retry is also answered 401/403 ends in an
\* AuthFatalError caused by the retry's failure, after exactly one invocation
\* of the refresh callback, and the failed retry is the last request.
C6_DoubleAuthFailureIsFatal ==
    \A i \in LogIndices :
        (rwLog[i].phase = "retry" /\ HasAuthStatus(rwLog[i].outcome))
        => /\ i = Len(rwLog)
           /\ i > 1 /\ rwLog[i-1].phase = "attempt" /\ HasAuthStatus(rwLog[i-1].outcome)
           /\ rwPc = "threw"
           /\ rwResult = AuthFatalError("Authentication failed after refresh", rwLog[i].outcome)
           /\ Len(rwRefreshes) = 1

C6_Witness ==
    /\ rwPc = "threw"
    /\ Len(rwLog) = 2
    /\ rwLog[1].outcome.type = "HttpError" /\ rwLog[1].outcome.status = 401
    /\ rwLog[2].phase = "retry"
    /\ rwLog[2].outcome.type = "HttpError" /\ rwLog[2].outcome.status = 403

\* C7: a 401/403 whose post-refresh retry succeeds: the refresh callback was
\* invoked exactly once, the retried request carries the credential the
\* callback returned in its Authorization header and is otherwise the request
\* that was rejected, and the retry's response is what the call returns.
C7_RefreshThenRetrySucceeds ==
    \A i \in LogIndices :
        (rwLog[i].phase = "retry" /\ IsResponse(rwLog[i].outcome))
        => /\ i = Len(rwLog)
           /\ i > 1 /\ rwLog[i-1].phase = "attempt" /\ HasAuthStatus(rwLog[i-1].outcome)
           /\ Len(rwRefreshes) = 1
           /\ rwRefreshes[1].ok
           /\ rwLog[i].params.headers.Authorization = Bearer(rwRefreshes[1].token)
           /\ rwLog[i].params.url = rwLog[i-1].params.url
           /\ \A h \in DOMAIN rwLog[i].params.headers \ {"Authorization"} :
                 rwLog[i].params.headers[h] = rwLog[i-1].params.headers[h]
           /\ DOMAIN rwLog[i].params = DOMAIN rwLog[i-1].params
           /\ DOMAIN rwLog[i].params.headers = DOMAIN rwLog[i-1].params.headers
           /\ rwPc = "returned"
           /\ rwResult = rwLog[i].outcome

C7_Witness ==
    /\ rwPc = "returned"
    /\ Len(rwLog) = 2
    /\ HasAuthStatus(rwLog[1].outcome)
    /\ rwLog[2].phase = "retry"
    /\ IsResponse(rwLog[2].outcome)
    /\ rwLog[2].params.headers.Authorization # rwLog[1].params.headers.Authorization

\* C8: a 401/403 followed by a failing refresh callback ends in an
\* AuthFatalError whose cause is the refresh failure; the callback was invoked
\* exactly once and no retry request was issued.
C8_RefreshFailureIsFatal ==
    \A k \in 1..Len(rwRefreshes) :
        ~rwRefreshes[k].ok
        => /\ Len(rwRefreshes) = 1
           /\ rwPc = "threw"
           /\ rwResult.type = "AuthFatalError"
           /\ rwResult.cause = rwRefreshes[k].err
           /\ \A i \in LogIndices : rwLog[i].phase = "attempt"
           /\ HasAuthStatus(rwLog[Len(rwLog)].outcome)

C8_Witness ==
    /\ rwPc = "threw"
    /\ Len(rwRefreshes) = 1
    /\ ~rwRefreshes[1].ok
    /\ Len(rwLog) = 1

\* the call has ended and every request it made failed with a retryable failure
AllAttemptsRetryable ==
    /\ RwrDone
    /\ \A i \in LogIndices : rwLog[i].phase = "attempt" /\ IsRetryable(rwLog[i].outcome)

\* the wait the code is to make after loop attempt `attempt` failed with `err`
C9_ExpectedWait(attempt, err) ==
    LET backoff == IF attempt = 0 THEN 1000 ELSE 2000 IN
    IF err.type = "HttpError" /\ err.status = 429 /\ err.retryAfter # ""
    THEN CASE err.retryAfter = "1" -> backoff
           [] err.retryAfter = "10" -> 10000
           [] OTHER -> NaN
    ELSE backoff

C10_OtherClientErrorFailsFast ==
    \A i \in LogIndices :
        (/\ rwLog[i].phase = "attempt"
         /\ rwLog[i].outcome.type = "HttpError"
         /\ rwLog[i].outcome.status \in (400..499) \ {401, 403, 429})
        => /\ i = Len(rwLog)
           /\ rwPc = "threw"
           /\ rwResult = rwLog[i].outcome
           /\ rwRefreshes = << >>
           /\ Len(rwWaits) = i - 1

C10_Witness ==
    /\ rwPc = "threw"
    /\ Len(rwLog) = 3
    /\ rwLog[3].phase = "attempt"
    /\ rwLog[3].outcome = HttpError(404, "")
    /\ Len(rwWaits) = 2

\* the call has ended with a response returned or an error thrown
Settled ==
    \/ rwPc = "returned" /\ rwResult.type = "Response"
    \/ rwPc = "threw" /\ rwResult.type \in {"HttpError", "NetworkError", "Error", "AuthFatalError"}

\* C37: every call of requestWithRetry ends, whatever its requests are
\* answered with, with a response returned or an error thrown, never by
\* leaving the loop with nothing; by then and at every moment before it has
\* issued at most MAX_RETRIES + 1 requests (one per loop attempt and one
\* after a refresh) and invoked the refresh callback at most once.
C37_CallEndsWithinFourRequests ==
    /\ <>Settled
    /\ [](RwrDone => Settled)
    /\ [](Len(rwLog) <= MAX_RETRIES + 1)
    /\ [](Cardinality({i \in LogIndices : rwLog[i].phase = "attempt"}) <= MAX_RETRIES)
    /\ [](Cardinality({i \in LogIndices : rwLog[i].phase = "retry"}) <= 1)
    /\ [](Len(rwRefreshes) <= 1)

\* two attempts failed with retryable errors, the third with a 401; the
\* refresh succeeded and the fourth request failed: the call threw
C37_Witness ==
    /\ rwPc = "threw"
    /\ Len(rwLog) = MAX_RETRIES + 1
    /\ rwLog[MAX_RETRIES].outcome = HttpError(401, "")
    /\ rwLog[MAX_RETRIES + 1].phase = "retry"
    /\ Len(rwRefreshes) = 1
    /\ Len(rwWaits) = MAX_RETRIES - 1

====
